---- MODULE Spec2Model ----
(***************************************************************************)
(* State-machine model of the VRBO scraper (src/vrbo_scraper): the         *)
(* orchestrator main(), the browser start-up with its one-shot profile     *)
(* reset, the per-city search pagination loop, the detail loop and the     *)
(* in-memory LocalDB with its JSON dump at run end.                        *)
(*                                                                         *)
(* The browser and the site are the environment: every browser call that   *)
(* the code does not guard is an input that either succeeds or raises, and *)
(* every result page is an arbitrary short list of listing hrefs.          *)
(***************************************************************************)
EXTENDS Integers, Sequences, FiniteSets, TLC

\* ------------------------------------------------------------------ bounds
MaxCities == 2        \* the configuration file lists 1..MaxCities cities
MaxCards == 2         \* a result page shows at most MaxCards listing cards
MaxPagesCfg == 2      \* VRBO_MAX_PAGES is drawn from 0..MaxPagesCfg
MaxDetailCfg == 1     \* VRBO_MAX_DETAIL_TARGETS is drawn from 0..MaxDetailCfg
MaxHrefLen == 5       \* an href handed to clean_url on its own has 0..MaxHrefLen parts
MaxQuery == 2         \* a city's search_url carries 0..MaxQuery query parameters
MaxAdults == 3        \* a city's adults is drawn from 0..MaxAdults
MaxChildren == 1      \* a city's children is drawn from -1..MaxChildren
MaxDay == 2           \* today and the dates of the file are days 0..MaxDay
MaxNights == 2        \* a city's nights is drawn from -1..MaxNights
MaxItems == 5         \* unique_list is given lists of 0..MaxItems items
MaxText == 5          \* parse_price_amount is given texts of 0..MaxText characters
MaxScrolls == 4       \* scroll_page reads its measurements at most MaxScrolls times
MaxChecks == 2        \* the blocked-page checks of one result page are followed up to MaxChecks
MaxSelectors == 2     \* click_next goes through MaxSelectors selectors
MaxElems == 2         \* a selector of click_next matches 0..MaxElems elements
MaxButtons == 2       \* a detail page has 0..MaxButtons buttons
MaxDialogItems == 2   \* the amenities of the page, and those of the dialog, are 0..MaxDialogItems items

\* ------------------------------------------------------- values and inputs
None == "None"
VRBO_TARGET_TYPE == "vrbo_detail"

\* A url is the sequence of its delimiters and of the runs of other
\* characters between them ("https://www.vrbo.com/pdp/1?ref=srp" is
\* <<"https", ":", "/", "/", "www.vrbo.com", "/", "pdp", "/", "1", "?",
\* "ref=srp">>); the empty string is <<>>.
Delims == {":", "/", "?", "#", "[", ";"}
VRBO_BASE == <<"https", ":", "/", "/", "www.vrbo.com">>
ValueError == "ValueError"

\* time.time() at run_start
Timestamps == {1700000000}

\* the hrefs of the result pages: two listings, one of them reachable through
\* an absolute link and through a relative link carrying a tracking query
Hrefs ==
    { <<"https", ":", "/", "/", "www.vrbo.com", "/", "pdp", "/", "1">>,
      <<"/", "pdp", "/", "1", "?", "ref=srp">>,
      <<"https", ":", "/", "/", "www.vrbo.com", "/", "pdp", "/", "2", "#", "top">> }

\* the hrefs of the cards of one result page, in document order
CardHrefs == UNION { [1..n -> Hrefs] : n \in 0..MaxCards }

\* exceptions (all are subclasses of Exception)
SessionNotCreatedException == "SessionNotCreatedException"
WebDriverException == "WebDriverException"
TimeoutException == "TimeoutException"
RuntimeError == "RuntimeError"
JSONDecodeError == "JSONDecodeError"
OSError == "OSError"
ExceptionSubclasses ==
    {SessionNotCreatedException, WebDriverException, TimeoutException,
     RuntimeError, JSONDecodeError, OSError}

\* the sample load_cities writes when the file is absent lists one city
\* (Bogota), city 0 here; the cities of the user's file are 1, 2, ...
sample == <<0>>

\* cities.vrbo_col.json before main starts: absent, not JSON, or JSON listing
\* 0..MaxCities cities
CitiesFiles ==
    { [exists |-> FALSE, json |-> FALSE, cities |-> <<>>],
      [exists |-> TRUE, json |-> FALSE, cities |-> <<>>] }
    \cup { [exists |-> TRUE, json |-> TRUE, cities |-> [i \in 1..n |-> i]] :
             n \in 0..MaxCities }

VARIABLES
    \* configuration, read once from the environment and the cities file
    VRBO_FRESH_PROFILE, VRBO_COOKIES, VRBO_MAX_PAGES, VRBO_MAX_DETAIL_TARGETS,
    cities_file, cities,
    \* main() and start_driver()
    pc, force_fresh, driver, exc, run_id, events,
    \* LocalDB
    _targets, _next_target_id, _results, output_file,
    \* run_city locals (of the current or the last city)
    ci, seen, page_num, city_base, page_new, click_pages, stop_reason, paused,
    \* process_detail_targets locals and the outcome of each scrape
    targets, ti, scraped,
    \* a call of one of the pure functions of utils.py on its own: the
    \* function, its argument and, once it has returned, <<its result>>
    call, arg, ret,
    \* the local variables of a function that is followed step by step
    locals

cfgvars == <<VRBO_FRESH_PROFILE, VRBO_COOKIES, VRBO_MAX_PAGES,
             VRBO_MAX_DETAIL_TARGETS>>
dbvars == <<_targets, _next_target_id, _results, output_file>>
cityvars == <<ci, seen, page_num, city_base, page_new, click_pages, stop_reason,
              paused>>
detailvars == <<targets, ti, scraped>>
utilvars == <<call, arg, ret, locals>>
\* what no step of main changes once the cities are loaded
fixedvars == <<cfgvars, cities_file, cities, utilvars>>
mainvars == <<cfgvars, cities_file, cities, pc, force_fresh, driver, exc, run_id,
              events, dbvars, cityvars, detailvars>>
vars == <<mainvars, utilvars>>

\* ---------------------------------------------------------------- helpers
\* str.find and str.rfind for a set of characters: the first position from
\* start on (the last position) holding one of them, 0 when there is none
find(s, chars, start) ==
    LET hits == {i \in start..Len(s) : s[i] \in chars} IN
    IF hits = {} THEN 0 ELSE CHOOSE i \in hits : \A j \in hits : i <= j

rfind(s, chars) ==
    LET hits == {i \in 1..Len(s) : s[i] \in chars} IN
    IF hits = {} THEN 0 ELSE CHOOSE i \in hits : \A j \in hits : i >= j

\* urllib.parse.uses_params and uses_netloc, as far as the schemes here go
uses_params == {<<>>, <<"http">>, <<"https">>}
uses_netloc == {<<>>, <<"http">>, <<"https">>}

\* body(value), the value computed once and then named, as an assignment
\* to a local does
Bind(value, body(_)) == CHOOSE r \in {body(x) : x \in {value}} : TRUE

\* urlsplit, the scheme: what precedes the first ":" when it is made of
\* scheme characters only
split_scheme(url) ==
    LET i == find(url, {":"}, 1) IN
    IF i > 1 /\ \A k \in 1..(i - 1) : url[k] \notin Delims
    THEN [scheme |-> SubSeq(url, 1, i - 1), url |-> SubSeq(url, i + 1, Len(url))]
    ELSE [scheme |-> <<>>, url |-> url]

\* urlsplit, the netloc (_splitnetloc): what follows a leading "//" up to the
\* next "/", "?" or "#"
split_netloc(url) ==
    LET d == find(url, {"/", "?", "#"}, 3)
        delim == IF d = 0 THEN Len(url) + 1 ELSE d
    IN
    IF Len(url) >= 2 /\ url[1] = "/" /\ url[2] = "/"
    THEN [netloc |-> SubSeq(url, 3, delim - 1), url |-> SubSeq(url, delim, Len(url))]
    ELSE [netloc |-> <<>>, url |-> url]

\* url.split(char, 1)
split_once(url, char) ==
    LET i == find(url, {char}, 1) IN
    IF i = 0 THEN [head |-> url, tail |-> <<>>]
    ELSE [head |-> SubSeq(url, 1, i - 1), tail |-> SubSeq(url, i + 1, Len(url))]

\* urllib.parse.urlsplit: scheme, netloc, then fragment and query; a netloc
\* with an unmatched "[" raises
urlsplit(url) ==
    Bind(split_scheme(url), LAMBDA s :
    Bind(split_netloc(s.url), LAMBDA n :
    Bind(split_once(n.url, "#"), LAMBDA f :
    Bind(split_once(f.head, "?"), LAMBDA q :
        [raised |-> IF find(n.netloc, {"["}, 1) # 0 THEN ValueError ELSE None,
         scheme |-> s.scheme, netloc |-> n.netloc, path |-> q.head,
         query |-> q.tail, fragment |-> f.tail]))))

\* urllib.parse._splitparams: the params follow the first ";" of the last
\* path segment
_splitparams(url) ==
    LET slash == rfind(url, {"/"})
        i == find(url, {";"}, IF slash = 0 THEN 1 ELSE slash)
    IN
    IF i = 0 THEN [path |-> url, params |-> <<>>]
    ELSE [path |-> SubSeq(url, 1, i - 1), params |-> SubSeq(url, i + 1, Len(url))]

\* urllib.parse.urlparse: urlsplit, then the params of a scheme that has them
urlparse(url) ==
    Bind(urlsplit(url), LAMBDA u :
    Bind(IF u.scheme \in uses_params /\ find(u.path, {";"}, 1) # 0
         THEN _splitparams(u.path)
         ELSE [path |-> u.path, params |-> <<>>], LAMBDA split :
        [raised |-> u.raised, scheme |-> u.scheme, netloc |-> u.netloc,
         path |-> split.path, params |-> split.params, query |-> u.query,
         fragment |-> u.fragment]))

\* urllib.parse.urlunparse (with urlunsplit): a path behind a netloc gets a
\* leading "/" when it has none
urlunparse(scheme, netloc, url, params, query, fragment) ==
    Bind(IF params # <<>> THEN url \o <<";">> \o params ELSE url, LAMBDA u1 :
    Bind(IF netloc # <<>>
            \/ (scheme # <<>> /\ scheme \in uses_netloc
                  /\ ~(Len(u1) >= 2 /\ u1[1] = "/" /\ u1[2] = "/"))
         THEN <<"/", "/">> \o netloc
                \o (IF u1 # <<>> /\ u1[1] # "/" THEN <<"/">> \o u1 ELSE u1)
         ELSE u1, LAMBDA u2 :
        (IF scheme # <<>> THEN scheme \o <<":">> \o u2 ELSE u2)
            \o (IF query # <<>> THEN <<"?">> \o query ELSE <<>>)
            \o (IF fragment # <<>> THEN <<"#">> \o fragment ELSE <<>>)))

\* the query handed on to urlunparse
clean_url_keeps_query(href) ==
    Bind(urlparse(href), LAMBDA u :
    Bind(urlparse(VRBO_BASE), LAMBDA base :
        IF u.raised # None THEN href
        ELSE urlunparse(IF u.scheme # <<>> THEN u.scheme ELSE base.scheme,
                        IF u.netloc # <<>> THEN u.netloc ELSE base.netloc,
                        u.path, <<>>, u.query, <<>>)))

\* utils.clean_url: keep scheme, host and path, fill in the site's scheme and
\* host when the href lacks them, drop params, query and fragment; an href
\* that urlparse rejects comes back as it is
clean_url(href) ==
    Bind(urlparse(href), LAMBDA u :
    Bind(urlparse(VRBO_BASE), LAMBDA base :
        IF u.raised # None THEN href
        ELSE urlunparse(IF u.scheme # <<>> THEN u.scheme ELSE base.scheme,
                        IF u.netloc # <<>> THEN u.netloc ELSE base.netloc,
                        u.path, <<>>, <<>>, <<>>)))

\* clean_url on every href a result page can show (a table of its values)
href_urls == [h \in Hrefs |-> clean_url(h)]

\* search.extract_cards: one stub per card, url = clean_url(full href)
extract_cards(hrefs) ==
    [i \in 1..Len(hrefs) |-> [url |-> href_urls[hrefs[i]], full_url |-> hrefs[i]]]

\* add_target with the row appended as already visited
add_target_status_done(next_id, rid, typ, clean, full_url) ==
    [id |-> next_id, run_id |-> rid, type |-> typ, value |-> clean,
     url |-> full_url, status |-> "done"]

\* LocalDB.add_target: the row appended to _targets ("url" is full_url, the
\* href of the card, which is never empty here)
add_target(next_id, rid, typ, clean, full_url) ==
    [id |-> next_id, run_id |-> rid, type |-> typ, value |-> clean,
     url |-> full_url, status |-> "queued"]

\* run_city's dedup test, "if clean and clean not in seen"; the url of a stub
\* is never empty (extract_cards skips a card whose clean url is)
is_new(clean, seen_set) == clean \notin seen_set

\* run_city's loop over the cards of one page: every new url is marked seen
\* and registered through db.add_target; st = [seen, rows, next_id, new_count]
RECURSIVE register_cards(_, _, _)
register_cards(cards, rid, st) ==
    IF cards = <<>> THEN st
    ELSE LET card == Head(cards) IN
         IF is_new(card.url, st.seen)
         THEN register_cards(Tail(cards), rid,
                [seen |-> st.seen \cup {card.url},
                 rows |-> Append(st.rows,
                            add_target(st.next_id, rid, VRBO_TARGET_TYPE,
                                       card.url, card.full_url)),
                 next_id |-> st.next_id + 1,
                 new_count |-> st.new_count + 1])
         ELSE register_cards(Tail(cards), rid, st)

\* the page limit off by one
max_pages_reached_off_by_one(pn) == VRBO_MAX_PAGES > 0 /\ pn > VRBO_MAX_PAGES

\* run_city's page limit: "VRBO_MAX_PAGES > 0 and page_num >= VRBO_MAX_PAGES"
max_pages_reached(pn) == VRBO_MAX_PAGES > 0 /\ pn >= VRBO_MAX_PAGES

\* LocalDB.list_targets
list_targets(rows, rid, typ, status) ==
    SelectSeq(rows, LAMBDA r : r.run_id = rid /\ r.type = typ /\ r.status = status)

\* the update without its "if row[id] == target_id": every row gets the status
update_target_status_every_row(rows, target_id, status) ==
    [i \in DOMAIN rows |-> [rows[i] EXCEPT !.status = status]]

\* LocalDB.update_target_status: the first row with that id gets the status
update_target_status(rows, target_id, status) ==
    LET hits == {i \in DOMAIN rows : rows[i].id = target_id} IN
    IF hits = {} THEN rows
    ELSE LET first == CHOOSE i \in hits : \A j \in hits : i <= j IN
         [rows EXCEPT ![first].status = status]

\* LocalDB.save_rental: {"url", "latitude", "longitude", **data}; the keys of
\* data override the three leading ones
save_rental(results, rid, unique_url, data, lat, lon) ==
    Append(results,
           [url |-> unique_url, latitude |-> data.latitude,
            longitude |-> data.longitude, unit_id |-> data.unit_id])

\* browser.resolve_profile_dir
resolve_profile_dir(fresh) ==
    IF VRBO_FRESH_PROFILE \/ fresh THEN "temporary" ELSE "persistent"

\* the test without force_fresh: a failed retry is retried again
retry_forbidden_by_config_only(fresh) == VRBO_FRESH_PROFILE

\* start_driver's test in the SessionNotCreatedException handler: re-raise
retry_forbidden(fresh) == fresh \/ VRBO_FRESH_PROFILE

\* scrape_detail_page with the heading wait left unguarded: the timeout
\* leaves the function as an exception
scrape_detail_page_unguarded_wait(clean, full_url, page) ==
    IF page.get # "ok"
    THEN [raised |-> page.get, data |-> <<>>, coordinates |-> <<>>]
    ELSE IF page.heading = "timeout"
    THEN [raised |-> TimeoutException, data |-> <<>>, coordinates |-> <<>>]
    ELSE IF page.extract # "ok"
    THEN [raised |-> page.extract, data |-> <<>>, coordinates |-> <<>>]
    ELSE [raised |-> None,
          data |-> << [unit_id |-> clean, latitude |-> page.lat,
                       longitude |-> page.lon] >>,
          coordinates |-> << [lat |-> page.lat, lon |-> page.lon] >>]

\* detail.scrape_detail_page; page is what the browser does on this visit:
\* get/extract are "ok" or an exception, heading is "present" or "timeout".
\* The returned pair is (data, coordinates); a returned Python None is <<>>
\* and a returned dict d is <<d>>; raised names the exception that left it.
scrape_detail_page(clean, full_url, page) ==
    IF page.get # "ok"
    THEN [raised |-> page.get, data |-> <<>>, coordinates |-> <<>>]
    ELSE IF page.heading = "timeout"
    THEN [raised |-> None, data |-> <<>>, coordinates |-> <<>>]
    ELSE IF page.extract # "ok"
    THEN [raised |-> page.extract, data |-> <<>>, coordinates |-> <<>>]
    ELSE [raised |-> None,
          data |-> << [unit_id |-> clean, latitude |-> page.lat,
                       longitude |-> page.lon] >>,
          coordinates |-> << [lat |-> page.lat, lon |-> page.lon] >>]

\* what the browser can do on one detail visit
DetailPages ==
    [get : {"ok", WebDriverException}, heading : {"present", "timeout"},
     blocked : BOOLEAN, extract : {"ok", WebDriverException},
     lat : {None}, lon : {None}]

\* a handler that catches the wait timeout only
detail_catches_timeout_only(e) == e = TimeoutException

\* process_detail_targets: "except Exception" around one target
detail_catches(e) == e \in ExceptionSubclasses

\* the test "if data" inverted
status_after_inverted(res) ==
    IF res.raised # None THEN "error"
    ELSE IF res.data # <<>> THEN "empty" ELSE "done"

\* process_detail_targets: the status a target gets from its scrape
status_after(res) ==
    IF res.raised # None THEN "error"
    ELSE IF res.data # <<>> THEN "done" ELSE "empty"

\* a handler that catches the page-load timeout only
main_catches_timeout_only(e) == e = TimeoutException

\* main's "except Exception" around the two phases
main_catches(e) == e \in ExceptionSubclasses

Min(a, b) == IF a <= b THEN a ELSE b

\* LocalDB.run_end: the file vrbo_results_<run_id>.json holding the records
run_end(results, rid, success) == << [run_id |-> rid, content |-> results] >>

\* what the browser can do on one pass of run_city's pagination loop; a call
\* the pass cannot reach (after an exception, the block check on a page with
\* cards, the next control on a page without) is given its plain outcome
SearchPages ==
    { p \in [scroll : {"ok", "container_script_fails", WebDriverException},
             extract : {"ok", WebDriverException},
             hrefs : CardHrefs, blocked : {"yes", "no", WebDriverException},
             next : {"clicked", "click_fails", "no_candidate",
                     WebDriverException}] :
        /\ p.scroll = WebDriverException => p.extract = "ok"
        /\ (p.scroll = WebDriverException \/ p.extract = WebDriverException)
              => p.hrefs = <<>>
        /\ (p.scroll = WebDriverException \/ p.extract = WebDriverException
              \/ p.hrefs # <<>>) => p.blocked = "no"
        /\ p.hrefs = <<>> => p.next = "no_candidate" }

\* search.scroll_page: a script call that fails while the results container
\* is scrolled ends the scrolling (guarded); without a container the
\* whole-page scroll is unguarded and its exception leaves scroll_page
scroll_page(scroll) ==
    IF scroll \in {"ok", "container_script_fails"} THEN "ok" ELSE scroll

\* a check that finds a block marker on every page
is_blocked_on_every_page(blocked) == "yes"

\* search.is_blocked reads driver.page_source unguarded: "yes", "no" or the
\* exception
is_blocked(blocked) == blocked

\* click_next with elem.click() left unguarded
click_next_unguarded(next) ==
    IF next = "clicked" THEN "True"
    ELSE IF next = "no_candidate" THEN "False"
    ELSE WebDriverException

\* search.click_next on what the page offers: "clicked" (a candidate's click
\* succeeds), "click_fails" (every eligible candidate's click raises, which
\* the function swallows), "no_candidate", or an exception of the unguarded
\* lookups (find_elements, is_displayed, is_enabled). The result is "True",
\* "False" or the exception that leaves click_next.
click_next(next) ==
    IF next = "clicked" THEN "True"
    ELSE IF next \in {"click_fails", "no_candidate"} THEN "False"
    ELSE next

\* a loop that does not stop on a page without new urls
no_new_results_ignored(new_count) == new_count < 0

\* run_city: "if new_count == 0: break"
no_new_results(new_count) == new_count = 0

\* the ways run_city's loop ends without an exception
BreakReasons == {"no_cards", "no_new", "max_pages", "no_next"}

\* One pass of run_city's "while True" body on the page the browser shows.
\* outcome is "continue" (same page again, after the pause on input()),
\* "next_page", the reason of the break, or the exception that leaves run_city.
run_city_page(page) ==
    LET same == [seen |-> seen, rows |-> _targets, next_id |-> _next_target_id,
                 page_num |-> page_num, page_new |-> page_new,
                 click_pages |-> click_pages, paused |-> paused,
                 outcome |-> "continue"]
        cards == extract_cards(page.hrefs)
        st == register_cards(cards, run_id,
                 [seen |-> seen, rows |-> _targets,
                  next_id |-> _next_target_id, new_count |-> 0])
        added == [same EXCEPT !.seen = st.seen, !.rows = st.rows,
                              !.next_id = st.next_id,
                              !.page_new[page_num] = @ + st.new_count]
        clicking == [added EXCEPT !.click_pages = @ \cup {page_num}]
    IN
    IF scroll_page(page.scroll) # "ok"
    THEN [same EXCEPT !.outcome = scroll_page(page.scroll)]
    ELSE IF page.extract # "ok" THEN [same EXCEPT !.outcome = page.extract]
    ELSE IF cards = <<>>
    THEN IF is_blocked(page.blocked) = "yes" THEN [same EXCEPT !.paused = TRUE]
         ELSE IF is_blocked(page.blocked) = "no"
         THEN [same EXCEPT !.outcome = "no_cards"]
         ELSE [same EXCEPT !.outcome = is_blocked(page.blocked)]
    ELSE IF no_new_results(st.new_count)
    THEN [added EXCEPT !.outcome = "no_new"]
    ELSE IF max_pages_reached(page_num)
    THEN [added EXCEPT !.outcome = "max_pages"]
    ELSE IF click_next(page.next) = "True"
    THEN [clicking EXCEPT !.outcome = "next_page", !.page_num = @ + 1,
                          !.page_new = Append(@, 0)]
    ELSE IF click_next(page.next) = "False"
    THEN [clicking EXCEPT !.outcome = "no_next"]
    ELSE [clicking EXCEPT !.outcome = click_next(page.next)]

\* the list without the cut to VRBO_MAX_DETAIL_TARGETS
detail_targets_uncut(rows, rid) ==
    list_targets(rows, rid, VRBO_TARGET_TYPE, "queued")

\* process_detail_targets: the queued rows of the run, cut to the first
\* VRBO_MAX_DETAIL_TARGETS when that is positive
detail_targets(rows, rid) ==
    LET queued == list_targets(rows, rid, VRBO_TARGET_TYPE, "queued") IN
    IF VRBO_MAX_DETAIL_TARGETS > 0
    THEN SubSeq(queued, 1, Min(VRBO_MAX_DETAIL_TARGETS, Len(queued)))
    ELSE queued

\* load_cities that returns the sample's cities after writing the sample
load_cities_returns_sample(file) ==
    IF ~file.exists
    THEN [file |-> [exists |-> TRUE, json |-> TRUE, cities |-> sample],
          raised |-> None, cities |-> sample]
    ELSE IF ~file.json
    THEN [file |-> file, raised |-> JSONDecodeError, cities |-> <<>>]
    ELSE IF file.cities = <<>>
    THEN [file |-> file, raised |-> RuntimeError, cities |-> <<>>]
    ELSE [file |-> file, raised |-> None, cities |-> file.cities]

\* utils.load_cities on the file as it is found: the file it leaves, the
\* exception that leaves it (or None) and the cities it returns
load_cities(file) ==
    IF ~file.exists
    THEN [file |-> [exists |-> TRUE, json |-> TRUE, cities |-> sample],
          raised |-> RuntimeError, cities |-> <<>>]
    ELSE IF ~file.json
    THEN [file |-> file, raised |-> JSONDecodeError, cities |-> <<>>]
    ELSE IF file.cities = <<>>
    THEN [file |-> file, raised |-> RuntimeError, cities |-> <<>>]
    ELSE [file |-> file, raised |-> None, cities |-> file.cities]

\* process_detail_targets called inside the loop, after the first city
for_exhausted_after_first(i, seq) == i > 1

\* main's "for city in cities" has no city left when the i-th is due
for_exhausted(i, seq) == i > Len(seq)

\* ------------------------------------------------------------------- Init
Init ==
    /\ VRBO_FRESH_PROFILE \in BOOLEAN
    /\ VRBO_COOKIES \in BOOLEAN
    /\ VRBO_MAX_PAGES \in 0..MaxPagesCfg
    /\ VRBO_MAX_DETAIL_TARGETS \in 0..MaxDetailCfg
    /\ cities_file \in CitiesFiles
    /\ cities = <<>>
    /\ pc = "load_cities"
    /\ force_fresh = FALSE
    /\ driver = "none"
    /\ exc = None
    /\ run_id = 0
    /\ events = <<>>
    /\ _targets = <<>>
    /\ _next_target_id = 1
    /\ _results = <<>>
    /\ output_file = <<>>
    /\ ci = 0
    /\ seen = {}
    /\ page_num = 0
    /\ city_base = 0
    /\ page_new = <<>>
    /\ click_pages = {}
    /\ stop_reason = None
    /\ paused = FALSE
    /\ targets = <<>>
    /\ ti = 0
    /\ scraped = {}
    /\ call = None
    /\ locals = <<>>
    /\ arg = <<>>
    /\ ret = <<>>

\* ---------------------------------------------------------------- actions
\* the trace entry of an exception being raised
raise_event(e) == "exception_" \o e

\* main: "cities = load_cities(...)", before the browser is started and
\* outside every try block
LoadCities ==
    /\ pc = "load_cities"
    /\ LET r == load_cities(cities_file) IN
       /\ cities_file' = r.file
       /\ cities' = r.cities
       /\ exc' = r.raised
       /\ pc' = IF r.raised = None THEN "start_driver" ELSE "exited"
    /\ UNCHANGED <<cfgvars, utilvars, force_fresh, driver, run_id, events,
                   dbvars, cityvars, detailvars>>

\* browser.start_driver, one launch attempt (the retry is its recursive call)
StartDriver ==
    /\ pc = "start_driver"
    /\ \E launch \in {"ok", SessionNotCreatedException, WebDriverException} :
         LET profile == resolve_profile_dir(force_fresh)
             tried == Append(events, "launch_" \o profile)
             failed == Append(tried, raise_event(launch))
         IN
         IF launch = "ok"
         THEN /\ driver' = "open"
              /\ pc' = "inject_cookies"
              /\ events' = tried
              /\ UNCHANGED <<force_fresh, exc>>
         ELSE IF launch = SessionNotCreatedException /\ ~retry_forbidden(force_fresh)
         THEN /\ events' = Append(failed, "rmtree_" \o profile)
              /\ force_fresh' = TRUE
              /\ UNCHANGED <<pc, driver, exc>>
         ELSE /\ exc' = launch
              /\ pc' = "exited"
              /\ events' = failed
              /\ UNCHANGED <<force_fresh, driver>>
    /\ UNCHANGED <<fixedvars, run_id, dbvars, cityvars, detailvars>>

\* main: "if VRBO_COOKIE_STRING or VRBO_COOKIES_JSON: inject_cookies(...)"
InjectCookies ==
    /\ pc = "inject_cookies"
    /\ IF VRBO_COOKIES
       THEN \E r \in {"ok", WebDriverException} :
              IF r = "ok"
              THEN /\ events' = Append(events, "inject_cookies")
                   /\ pc' = "run_start"
                   /\ exc' = exc
              ELSE /\ events' = events \o <<"inject_cookies", raise_event(r)>>
                   /\ pc' = "finally"
                   /\ exc' = r
       ELSE pc' = "run_start" /\ UNCHANGED <<events, exc>>
    /\ UNCHANGED <<fixedvars, force_fresh, driver, run_id, dbvars, cityvars,
                   detailvars>>

\* main: "run_id = db.run_start()", then the head of "for city in cities"
RunStart ==
    /\ pc = "run_start"
    /\ \E t \in Timestamps : run_id' = t
    /\ events' = Append(events, "run_start")
    /\ pc' = "for_city"
    /\ ci' = 1
    /\ UNCHANGED <<fixedvars, force_fresh, driver,
                   exc, dbvars, seen, page_num, city_base, page_new, click_pages,
                   stop_reason, paused, detailvars>>

\* where an exception raised inside main's inner try goes
raise_in_try(e) == IF main_catches(e) THEN "except" ELSE "finally"

\* run_city up to its loop: build the url, driver.get (page-load timeout),
\* the blocked check (page_source) and its pause on input(); load is "ok" or
\* the exception of one of the two browser calls, blocked is what the check
\* finds on the loaded page
RunCityEnter ==
    /\ pc = "for_city"
    /\ ~for_exhausted(ci, cities)
    /\ \E load \in {"ok", TimeoutException, WebDriverException},
          blocked \in {"yes", "no"} :
         IF load = "ok"
         THEN /\ pc' = "city_page"
              /\ paused' = (is_blocked(blocked) = "yes")
              /\ events' = Append(events, "run_city")
              /\ seen' = {}
              /\ page_num' = 1
              /\ city_base' = Len(_targets)
              /\ page_new' = <<0>>
              /\ click_pages' = {}
              /\ stop_reason' = None
              /\ exc' = exc
         ELSE /\ pc' = raise_in_try(load)
              /\ events' = events \o <<"run_city", raise_event(load)>>
              /\ exc' = load
              /\ UNCHANGED <<seen, page_num, city_base, page_new, click_pages,
                             stop_reason, paused>>
    /\ UNCHANGED <<fixedvars, force_fresh, driver,
                   run_id, dbvars, ci, detailvars>>

\* one pass of run_city's pagination loop; a break returns to main's loop
RunCityPage ==
    /\ pc = "city_page"
    /\ \E page \in SearchPages :
         LET r == run_city_page(page) IN
         /\ seen' = r.seen
         /\ _targets' = r.rows
         /\ _next_target_id' = r.next_id
         /\ page_num' = r.page_num
         /\ page_new' = r.page_new
         /\ click_pages' = r.click_pages
         /\ paused' = r.paused
         /\ IF r.outcome \in {"continue", "next_page"}
            THEN UNCHANGED <<pc, ci, stop_reason, exc, events>>
            ELSE IF r.outcome \in BreakReasons
            THEN /\ pc' = "for_city"
                 /\ ci' = ci + 1
                 /\ stop_reason' = r.outcome
                 /\ UNCHANGED <<exc, events>>
            ELSE /\ pc' = raise_in_try(r.outcome)
                 /\ exc' = r.outcome
                 /\ events' = Append(events, raise_event(r.outcome))
                 /\ UNCHANGED <<ci, stop_reason>>
    /\ UNCHANGED <<fixedvars, force_fresh, driver,
                   run_id, city_base, _results, output_file, detailvars>>

\* process_detail_targets up to its loop (the locals of the last run_city
\* call are gone by now)
ProcessDetailTargets ==
    /\ pc = "for_city"
    /\ for_exhausted(ci, cities)
    /\ LET rows == detail_targets(_targets, run_id) IN
       /\ targets' = [i \in 1..Len(rows) |-> rows[i].id]
       /\ ti' = 1
       /\ pc' = IF rows = <<>> THEN "run_end" ELSE "detail_loop"
    /\ events' = Append(events, "process_detail_targets")
    /\ seen' = {}
    /\ page_num' = 0
    /\ city_base' = 0
    /\ page_new' = <<>>
    /\ click_pages' = {}
    /\ stop_reason' = None
    /\ paused' = FALSE
    /\ UNCHANGED <<fixedvars, force_fresh, driver,
                   exc, run_id, dbvars, ci, scraped>>

\* process_detail_targets: one pass of "for row in targets"
DetailTarget ==
    /\ pc = "detail_loop"
    /\ \E page \in DetailPages :
         LET row == _targets[CHOOSE i \in DOMAIN _targets :
                                _targets[i].id = targets[ti]]
             res == scrape_detail_page(row.value, row.url, page)
         IN
         IF res.raised # None /\ ~detail_catches(res.raised)
         THEN /\ pc' = raise_in_try(res.raised)
              /\ exc' = res.raised
              /\ events' = Append(events, raise_event(res.raised))
              /\ UNCHANGED <<_targets, _results, ti, scraped>>
         ELSE /\ _results' =
                   IF res.raised = None /\ res.data # <<>>
                   THEN save_rental(_results, run_id, row.value, res.data[1],
                                    res.coordinates[1].lat, res.coordinates[1].lon)
                   ELSE _results
              /\ _targets' = update_target_status(_targets, row.id, status_after(res))
              /\ scraped' = scraped \cup
                   {[id |-> row.id, raised |-> res.raised,
                     heading |-> IF page.get = "ok" THEN page.heading ELSE None,
                     data |-> res.data # <<>>]}
              /\ ti' = ti + 1
              /\ pc' = IF ti = Len(targets) THEN "run_end" ELSE "detail_loop"
              /\ UNCHANGED <<exc, events>>
    /\ UNCHANGED <<fixedvars, force_fresh, driver, run_id,
                   _next_target_id, output_file, cityvars, targets>>

\* main, success path: db.run_end(run_id, True, "ok") and the log line
RunEnd ==
    /\ pc = "run_end"
    /\ output_file' = run_end(_results, run_id, TRUE)
    /\ events' = Append(events, "run_end_true")
    /\ pc' = "finally"
    /\ UNCHANGED <<fixedvars, force_fresh, driver, exc, run_id, _targets,
                   _next_target_id, _results, cityvars, detailvars>>

\* main's handler: db.run_end(run_id, False, str(exc)), the log line, raise
Except ==
    /\ pc = "except"
    /\ output_file' = run_end(_results, run_id, FALSE)
    /\ events' = events \o <<"run_end_false", "raise">>
    /\ pc' = "finally"
    /\ UNCHANGED <<fixedvars, force_fresh, driver, exc, run_id, _targets,
                   _next_target_id, _results, cityvars, detailvars>>

\* driver.quit() at the end of the try block instead of in a finally
Finally_quit_on_success_only ==
    /\ pc = "finally"
    /\ driver' = IF exc = None THEN "closed" ELSE driver
    /\ events' = IF exc = None THEN Append(events, "quit") ELSE events
    /\ pc' = "exited"
    /\ UNCHANGED <<fixedvars, force_fresh, exc, run_id, dbvars, cityvars,
                   detailvars>>

\* main's finally: driver.quit(); main then returns or lets exc propagate
Finally ==
    /\ pc = "finally"
    /\ driver' = "closed"
    /\ events' = Append(events, "quit")
    /\ pc' = "exited"
    /\ UNCHANGED <<fixedvars, force_fresh, exc, run_id, dbvars, cityvars,
                   detailvars>>

Next ==
    \/ LoadCities
    \/ StartDriver
    \/ InjectCookies
    \/ RunStart
    \/ RunCityEnter
    \/ RunCityPage
    \/ ProcessDetailTargets
    \/ DetailTarget
    \/ RunEnd
    \/ Except
    \/ Finally

Spec == Init /\ [][Next]_vars

\* ------------------------------------------- the pure functions of utils.py
\* main is not running while one of them is called on its own
AtRest ==
    /\ VRBO_FRESH_PROFILE = FALSE
    /\ VRBO_COOKIES = FALSE
    /\ VRBO_MAX_PAGES = 0
    /\ VRBO_MAX_DETAIL_TARGETS = 0
    /\ cities_file = [exists |-> TRUE, json |-> TRUE, cities |-> <<>>]
    /\ cities = <<>>
    /\ pc = "load_cities"
    /\ force_fresh = FALSE
    /\ driver = "none"
    /\ exc = None
    /\ run_id = 0
    /\ events = <<>>
    /\ _targets = <<>>
    /\ _next_target_id = 1
    /\ _results = <<>>
    /\ output_file = <<>>
    /\ ci = 0
    /\ seen = {}
    /\ page_num = 0
    /\ city_base = 0
    /\ page_new = <<>>
    /\ click_pages = {}
    /\ stop_reason = None
    /\ paused = FALSE
    /\ targets = <<>>
    /\ ti = 0
    /\ scraped = {}

\* every href of at most MaxHrefLen parts: delimiters and the word "a"
HrefStrings == UNION { [1..n -> Delims \cup {"a"}] : n \in 0..MaxHrefLen }

InitCleanUrl ==
    /\ AtRest
    /\ call = "clean_url"
    /\ arg \in HrefStrings
    /\ ret = <<>>
    /\ locals = <<>>

\* clean_url(href), then clean_url on what it returned
CleanUrl ==
    /\ call = "clean_url"
    /\ ret = <<>>
    /\ ret' = <<clean_url(arg)>>
    /\ UNCHANGED <<mainvars, call, arg, locals>>

CleanUrlAgain ==
    /\ call = "clean_url"
    /\ Len(ret) = 1
    /\ ret' = Append(ret, clean_url(ret[1]))
    /\ UNCHANGED <<mainvars, call, arg, locals>>

NextCleanUrl ==
    \/ CleanUrl
    \/ CleanUrlAgain

SpecCleanUrl == InitCleanUrl /\ [][NextCleanUrl]_vars

\* ------------------------------------------------------------ vocabulary
\* the positions of the trace holding one of the given entries
EventsAt(names) == {i \in DOMAIN events : events[i] \in names}
Happened(name) == EventsAt({name}) # {}
ExceptionEvents == {raise_event(e) : e \in ExceptionSubclasses}
RowOf(target_id) ==
    _targets[CHOOSE i \in DOMAIN _targets : _targets[i].id = target_id]
DoneRows == SelectSeq(_targets, LAMBDA r : r.status = "done")
DetailOver == Happened("process_detail_targets") /\ pc # "detail_loop"

\* ---------------------------------------------------------- build_entry_url
\* A query string is the sequence of its "key=value" items, values as they
\* are written in the url; a dict is a sequence of [k, v] with distinct keys,
\* in insertion order; an absent or empty optional string is <<>>, a string
\* s is <<s>>.
Max(a, b) == IF a >= b THEN a ELSE b

\* urllib.parse.unquote_plus and quote_plus on the values that occur here
unquote_plus(v) == IF v \in {"a%20b", "a+b"} THEN "a b" ELSE v
quote_plus(v) == IF v = "a b" THEN "a+b" ELSE v

\* query[key] = value
dict_set(d, key, value) ==
    IF \E i \in DOMAIN d : d[i].k = key
    THEN [i \in DOMAIN d |-> IF d[i].k = key THEN [k |-> key, v |-> value] ELSE d[i]]
    ELSE Append(d, [k |-> key, v |-> value])

\* query.pop(key, None)
dict_pop(d, key) == SelectSeq(d, LAMBDA p : p.k # key)

\* dict(pairs): a later pair of the same key replaces the value of the earlier
RECURSIVE dict(_)
dict(pairs) ==
    IF pairs = <<>> THEN <<>>
    ELSE LET last == pairs[Len(pairs)] IN
         dict_set(dict(SubSeq(pairs, 1, Len(pairs) - 1)), last.k, last.v)

\* parse_qsl(query, keep_blank_values=True) and urlencode(query, doseq=True)
parse_qsl(query) ==
    [i \in DOMAIN query |-> [k |-> query[i].k, v |-> unquote_plus(query[i].v)]]
urlencode(d) == [i \in DOMAIN d |-> [k |-> d[i].k, v |-> quote_plus(d[i].v)]]

\* build_entry_url's set_param: the value under every key, or no such key
RECURSIVE set_param(_, _, _)
set_param(query, keys, value) ==
    IF keys = <<>> THEN query
    ELSE set_param(IF value # <<>> THEN dict_set(query, Head(keys), value[1])
                   ELSE dict_pop(query, Head(keys)),
                   Tail(keys), value)

\* query[key] = value only "if value"
set_if(query, key, value) ==
    IF value # <<>> THEN dict_set(query, key, value[1]) ELSE query

\* utils.build_entry_url; a url is [base, query], base standing for all of it
\* but the query string
build_entry_url(city) ==
    IF city.search_url # <<>>
    THEN LET parsed == city.search_url[1]
             q0 == dict(parse_qsl(parsed.query))
             q1 == set_param(q0, <<"checkIn", "startDate", "d1">>, city.checkin)
             q2 == set_param(q1, <<"checkOut", "endDate", "d2">>, city.checkout)
             q3 == dict_set(q2, "adults", ToString(Max(1, city.adults)))
             q4 == IF city.children # 0
                   THEN dict_set(q3, "children", ToString(city.children))
                   ELSE dict_pop(q3, "children")
             q5 == set_if(q4, "regionId", city.region_id)
             q6 == set_if(q5, "sort", city.sort)
         IN [parsed EXCEPT !.query = urlencode(q6)]
    ELSE LET dest == IF city.region_name # <<>> THEN city.region_name[1]
                     ELSE IF city.name # "" THEN city.name ELSE "Colombia"
             q0 == <<[k |-> "destination", v |-> dest]>>
             q1 == set_if(q0, "regionId", city.region_id)
             q2 == set_if(q1, "flexibility", city.flexibility)
             q3 == set_if(set_if(q2, "d1", city.checkin), "startDate", city.checkin)
             q4 == set_if(set_if(q3, "d2", city.checkout), "endDate", city.checkout)
             q5 == dict_set(q4, "adults", ToString(Max(1, city.adults)))
             q6 == IF city.children # 0
                   THEN dict_set(q5, "children", ToString(city.children))
                   ELSE q5
             q7 == set_if(q6, "sort", city.sort)
         IN [base |-> "https://www.vrbo.com/search", query |-> urlencode(q7)]

\* the search urls of the configuration: none, or one with 0..MaxQuery
\* parameters, keys and values possibly repeated
QueryItems == [k : {"foo", "adults", "children", "d1"}, v : {"bar", "1", "a%20b"}]
SearchUrls ==
    {<<>>} \cup { << [base |-> "https://www.vrbo.com/search", query |-> q] >> :
                    q \in UNION { [1..n -> QueryItems] : n \in 0..MaxQuery } }

\* CityCfg, the fields build_entry_url reads
CityCfgs ==
    [name : {"Bogota"}, region_name : {<<>>, <<"Cundinamarca">>},
     region_id : {<<>>, <<"-592318">>}, search_url : SearchUrls,
     checkin : {<<>>, <<"2026-11-03">>}, checkout : {<<"2026-11-04">>},
     adults : 0..MaxAdults, children : -1..MaxChildren,
     sort : {<<>>, <<"PRICE_LOW_TO_HIGH">>}, flexibility : {<<"0_DAY">>}]

InitBuildEntryUrl ==
    /\ AtRest
    /\ call = "build_entry_url"
    /\ arg \in CityCfgs
    /\ ret = <<>>
    /\ locals = <<>>

BuildEntryUrl ==
    /\ call = "build_entry_url"
    /\ ret = <<>>
    /\ ret' = <<build_entry_url(arg)>>
    /\ UNCHANGED <<mainvars, call, arg, locals>>

SpecBuildEntryUrl == InitBuildEntryUrl /\ [][BuildEntryUrl]_vars

\* -------------------------------------------------------------- ensure_dates
\* date.isoformat(): the string of a day; a missing or empty date is <<>>
isoformat(day) == <<day>>

\* the check-out computed from nights as it is
_force_tomorrow_dates_nights_unclamped(c, today) ==
    LET checkin == today + 1
        checkout == checkin + c.nights
    IN [c EXCEPT !.checkin = isoformat(checkin), !.checkout = isoformat(checkout)]

\* utils._force_tomorrow_dates, with today = datetime.now().date()
_force_tomorrow_dates(c, today) ==
    LET checkin == today + 1
        checkout == checkin + Max(1, c.nights)
    IN [c EXCEPT !.checkin = isoformat(checkin), !.checkout = isoformat(checkout)]

\* utils.ensure_dates
ensure_dates(c, today, VRBO_FORCE_TOMORROW) ==
    IF VRBO_FORCE_TOMORROW THEN _force_tomorrow_dates(c, today)
    ELSE IF c.checkin = <<>> \/ c.checkout = <<>> THEN _force_tomorrow_dates(c, today)
    ELSE c

\* the dates a city can come with
FileDates == {<<>>} \cup {isoformat(d) : d \in 0..MaxDay}

InitEnsureDates ==
    /\ AtRest
    /\ call = "ensure_dates"
    /\ arg \in [VRBO_FORCE_TOMORROW : BOOLEAN, today : 0..MaxDay,
                 c : [nights : -1..MaxNights, checkin : FileDates,
                      checkout : FileDates]]
    /\ ret = <<>>
    /\ locals = <<>>

EnsureDates ==
    /\ call = "ensure_dates"
    /\ ret = <<>>
    /\ ret' = <<ensure_dates(arg.c, arg.today, arg.VRBO_FORCE_TOMORROW)>>
    /\ UNCHANGED <<mainvars, call, arg, locals>>

SpecEnsureDates == InitEnsureDates /\ [][EnsureDates]_vars

\* --------------------------------------------------------------- unique_list
\* "if item and item not in seen" without the test of seen
is_first_nonempty_seen_ignored(item, seen_set) == item # ""

\* unique_list: "if item and item not in seen"
is_first_nonempty(item, seen_set) == item # "" /\ item \notin seen_set

\* unique_list's loop: st = [seen, ordered]
RECURSIVE unique_list_loop(_, _)
unique_list_loop(items, st) ==
    IF items = <<>> THEN st.ordered
    ELSE LET item == Head(items) IN
         IF is_first_nonempty(item, st.seen)
         THEN unique_list_loop(Tail(items),
                [seen |-> st.seen \cup {item}, ordered |-> Append(st.ordered, item)])
         ELSE unique_list_loop(Tail(items), st)

\* utils.unique_list
unique_list(items) == unique_list_loop(items, [seen |-> {}, ordered |-> <<>>])

Items == {"", "a", "b", "c"}

InitUniqueList ==
    /\ AtRest
    /\ call = "unique_list"
    /\ arg \in UNION { [1..n -> Items] : n \in 0..MaxItems }
    /\ ret = <<>>
    /\ locals = <<>>

\* unique_list(items), then unique_list on what it returned
UniqueList ==
    /\ call = "unique_list"
    /\ ret = <<>>
    /\ ret' = <<unique_list(arg)>>
    /\ UNCHANGED <<mainvars, call, arg, locals>>

UniqueListAgain ==
    /\ call = "unique_list"
    /\ Len(ret) = 1
    /\ ret' = Append(ret, unique_list(ret[1]))
    /\ UNCHANGED <<mainvars, call, arg, locals>>

NextUniqueList ==
    \/ UniqueList
    \/ UniqueListAgain

SpecUniqueList == InitUniqueList /\ [][NextUniqueList]_vars

\* -------------------------------------------------------- parse_price_amount
\* A text is the sequence of its characters; a float is n / 10^k, written
\* [n, k] with no trailing zero among its k decimals (1234.56 is
\* [n |-> 123456, k |-> 2], 12.0 is [n |-> 12, k |-> 0]).
int_digit ==
    [c \in {"0", "1", "2", "3", "4", "5", "6", "7", "8", "9"} |->
        CASE c = "0" -> 0 [] c = "1" -> 1 [] c = "2" -> 2 [] c = "3" -> 3
          [] c = "4" -> 4 [] c = "5" -> 5 [] c = "6" -> 6 [] c = "7" -> 7
          [] c = "8" -> 8 [] c = "9" -> 9]

\* the pattern [0-9][0-9.,]* with its tail cut down to [0-9]*
re_search_digits_only(text) ==
    LET starts == {i \in DOMAIN text : text[i] \in DOMAIN int_digit} IN
    IF starts = {} THEN <<>>
    ELSE Bind(CHOOSE i \in starts : \A j \in starts : i <= j, LAMBDA i :
         Bind(CHOOSE e \in i..Len(text) :
                  /\ \A k \in i..e : text[k] \in DOMAIN int_digit
                  /\ e < Len(text) => text[e + 1] \notin DOMAIN int_digit,
              LAMBDA e : << SubSeq(text, i, e) >>))

\* re.search(r"([0-9][0-9.,]*)", text): the leftmost digit and the longest
\* run of digits, dots and commas behind it; <<>> when there is no digit
re_search(text) ==
    LET starts == {i \in DOMAIN text : text[i] \in DOMAIN int_digit}
        tail == DOMAIN int_digit \cup {".", ","}
    IN
    IF starts = {} THEN <<>>
    ELSE Bind(CHOOSE i \in starts : \A j \in starts : i <= j, LAMBDA i :
         Bind(CHOOSE e \in i..Len(text) :
                  /\ \A k \in i..e : text[k] \in tail
                  /\ e < Len(text) => text[e + 1] \notin tail,
              LAMBDA e : << SubSeq(text, i, e) >>))

\* str.replace(old, new) for a one-character old
RECURSIVE replace(_, _, _)
replace(s, old, new) ==
    IF s = <<>> THEN <<>>
    ELSE (IF Head(s) = old THEN new ELSE <<Head(s)>>) \o replace(Tail(s), old, new)

\* the number a run of digits writes
RECURSIVE int(_)
int(digits) ==
    IF digits = <<>> THEN 0
    ELSE 10 * int(SubSeq(digits, 1, Len(digits) - 1)) + int_digit[digits[Len(digits)]]

\* n / 10^k without the trailing zeros of its decimals
RECURSIVE normal(_, _)
normal(n, k) ==
    IF k > 0 /\ n % 10 = 0 THEN normal(n \div 10, k - 1) ELSE [n |-> n, k |-> k]

\* float(value) for a value made of digits and points that starts with a
\* digit: more than one point is a ValueError
float(value) ==
    LET points == {i \in DOMAIN value : value[i] = "."} IN
    IF Cardinality(points) > 1 THEN [raised |-> ValueError, value |-> <<>>]
    ELSE [raised |-> None,
          value |-> << normal(int(replace(value, ".", <<>>)),
                              IF points = {} THEN 0
                              ELSE Len(value) - (CHOOSE i \in points : TRUE)) >>]

\* utils.parse_price_amount: [raised, value], value <<>> for None
parse_price_amount(text) ==
    IF text = <<>> THEN [raised |-> None, value |-> <<>>]
    ELSE Bind(re_search(text), LAMBDA match :
         IF match = <<>> THEN [raised |-> None, value |-> <<>>]
         ELSE Bind(float(replace(replace(match[1], ".", <<>>), ",", <<".">>)),
                   LAMBDA f :
                   IF f.raised = ValueError
                   THEN [raised |-> None, value |-> <<>>]
                   ELSE f))

\* the characters of the texts tried, and the example of the specification
PriceChars == {"0", "1", "5", ".", ",", "x"}
PriceExample == <<"1", ".", "2", "3", "4", ",", "5", "6", " ", "U", "S", "D">>
PriceTexts == UNION { [1..n -> PriceChars] : n \in 0..MaxText } \cup {PriceExample}

InitParsePriceAmount ==
    /\ AtRest
    /\ call = "parse_price_amount"
    /\ arg \in PriceTexts
    /\ ret = <<>>
    /\ locals = <<>>

ParsePriceAmount ==
    /\ call = "parse_price_amount"
    /\ ret = <<>>
    /\ ret' = <<parse_price_amount(arg)>>
    /\ UNCHANGED <<mainvars, call, arg, locals>>

SpecParsePriceAmount == InitParsePriceAmount /\ [][ParsePriceAmount]_vars

\* ---------------------------------------------------------------- scroll_page
\* scroll_page followed step by step: locals holds its position (pc) and its
\* stable_at_bottom and last_seen; arg is the sequence of the measurements
\* the loop has read, each [current, total] with current = scrollTop +
\* clientHeight and total = scrollHeight.
Pixels == {0, 2, 100, 103}
Measurements == [current : Pixels, total : Pixels]

abs(x) == IF x < 0 THEN -x ELSE x

\* "if total and current >= total - 5" without the test of total
at_bottom_any_total(current, total) == current >= total - 5

\* scroll_page: "if total and current >= total - 5"
at_bottom(current, total) == total # 0 /\ at_bottom_any_total(current, total)

\* scroll_page, the loop body after the two measurements
scroll_observe(st, current, total) ==
    IF at_bottom(current, total)
    THEN IF abs(st.last_seen - current) < 5
         THEN [st EXCEPT !.stable_at_bottom = @ + 1]
         ELSE [st EXCEPT !.stable_at_bottom = 1, !.last_seen = current]
    ELSE [st EXCEPT !.stable_at_bottom = 0, !.last_seen = current]

InitScrollPage ==
    /\ AtRest
    /\ call = "scroll_page"
    /\ arg = <<>>
    /\ ret = <<>>
    /\ locals = [pc |-> "container", stable_at_bottom |-> 0, last_seen |-> -1]

\* the search for the results container: a selector that raises is skipped
ScrollPageContainer ==
    /\ call = "scroll_page"
    /\ locals.pc = "container"
    /\ \E container \in BOOLEAN :
        locals' = [locals EXCEPT !.pc = IF container THEN "while" ELSE "window"]
    /\ UNCHANGED <<mainvars, call, arg, ret>>

\* one pass of "while stable_at_bottom < 3": scrollBy, then the two
\* measurements; a script call that raises breaks out of the loop
ScrollPageWhile ==
    /\ call = "scroll_page"
    /\ locals.pc = "while"
    /\ locals.stable_at_bottom < 3
    /\ Len(arg) < MaxScrolls
    /\ \E scrollBy \in {"ok", WebDriverException},
          measure \in {"ok", WebDriverException}, m \in Measurements :
        IF scrollBy # "ok" \/ measure # "ok"
        THEN /\ locals' = [locals EXCEPT !.pc = "bottom"]
             /\ arg' = arg
        ELSE /\ locals' = scroll_observe(locals, m.current, m.total)
             /\ arg' = Append(arg, m)
    /\ UNCHANGED <<mainvars, call, ret>>

\* the loop condition found false
ScrollPageWhileEnd ==
    /\ call = "scroll_page"
    /\ locals.pc = "while"
    /\ ~(locals.stable_at_bottom < 3)
    /\ locals' = [locals EXCEPT !.pc = "bottom"]
    /\ UNCHANGED <<mainvars, call, arg, ret>>

\* the last jump to the bottom (guarded) and the return
ScrollPageBottom ==
    /\ call = "scroll_page"
    /\ locals.pc = "bottom"
    /\ \E script \in {"ok", WebDriverException} :
        /\ locals' = [locals EXCEPT !.pc = "returned"]
        /\ ret' = << [raised |-> None] >>
    /\ UNCHANGED <<mainvars, call, arg>>

\* without a container: the whole-page scroll, whose script calls are not
\* guarded
ScrollPageWindow ==
    /\ call = "scroll_page"
    /\ locals.pc = "window"
    /\ \E script \in {"ok", WebDriverException} :
        /\ locals' = [locals EXCEPT !.pc = "returned"]
        /\ ret' = << [raised |-> IF script = "ok" THEN None ELSE script] >>
    /\ UNCHANGED <<mainvars, call, arg>>

NextScrollPage ==
    \/ ScrollPageContainer
    \/ ScrollPageWhile
    \/ ScrollPageWhileEnd
    \/ ScrollPageBottom
    \/ ScrollPageWindow

SpecScrollPage == InitScrollPage /\ [][NextScrollPage]_vars

\* ------------------------------------------- run_city, its blocked-page checks
\* main followed through the search of its first city, with the count of the
\* is_blocked calls and of the input() pauses that the pagination loop has
\* made on the current page (locals.checks, locals.pauses)
\* run_city up to its loop, for the first city
RunCityEnterChecks ==
    /\ pc = "for_city"
    /\ ~for_exhausted(ci, cities)
    /\ ci = 1
    /\ \E load \in {"ok", TimeoutException, WebDriverException},
          blocked \in {"yes", "no"} :
         IF load = "ok"
         THEN /\ pc' = "city_page"
              /\ paused' = (is_blocked(blocked) = "yes")
              /\ events' = Append(events, "run_city")
              /\ seen' = {}
              /\ page_num' = 1
              /\ city_base' = Len(_targets)
              /\ page_new' = <<0>>
              /\ click_pages' = {}
              /\ stop_reason' = None
              /\ exc' = exc
         ELSE /\ pc' = raise_in_try(load)
              /\ events' = events \o <<"run_city", raise_event(load)>>
              /\ exc' = load
              /\ UNCHANGED <<seen, page_num, city_base, page_new, click_pages,
                             stop_reason, paused>>
    /\ locals' = [checks |-> 0, pauses |-> 0]
    /\ UNCHANGED <<cfgvars, cities_file, cities, call, arg, ret, force_fresh,
                   driver, run_id, dbvars, ci, detailvars>>

\* one pass of run_city's pagination loop
RunCityPageChecks ==
    /\ pc = "city_page"
    /\ locals.checks < MaxChecks
    /\ \E page \in SearchPages : \E r \in {run_city_page(page)} :
         LET checked == /\ scroll_page(page.scroll) = "ok"
                        /\ page.extract = "ok"
                        /\ extract_cards(page.hrefs) = <<>>
             input == checked /\ is_blocked(page.blocked) = "yes"
         IN
         /\ locals' = IF r.page_num # page_num THEN [checks |-> 0, pauses |-> 0]
                       ELSE [checks |-> locals.checks + (IF checked THEN 1 ELSE 0),
                             pauses |-> locals.pauses + (IF input THEN 1 ELSE 0)]
         /\ seen' = r.seen
         /\ _targets' = r.rows
         /\ _next_target_id' = r.next_id
         /\ page_num' = r.page_num
         /\ page_new' = r.page_new
         /\ click_pages' = r.click_pages
         /\ paused' = r.paused
         /\ IF r.outcome \in {"continue", "next_page"}
            THEN UNCHANGED <<pc, ci, stop_reason, exc, events>>
            ELSE IF r.outcome \in BreakReasons
            THEN /\ pc' = "for_city"
                 /\ ci' = ci + 1
                 /\ stop_reason' = r.outcome
                 /\ UNCHANGED <<exc, events>>
            ELSE /\ pc' = raise_in_try(r.outcome)
                 /\ exc' = r.outcome
                 /\ events' = Append(events, raise_event(r.outcome))
                 /\ UNCHANGED <<ci, stop_reason>>
    /\ UNCHANGED <<cfgvars, cities_file, cities, call, arg, ret, force_fresh,
                   driver, run_id, city_base, _results, output_file, detailvars>>

NextRunCityChecks ==
    \/ LoadCities
    \/ StartDriver
    \/ InjectCookies
    \/ RunStart
    \/ RunCityEnterChecks
    \/ RunCityPageChecks

SpecRunCityChecks == Init /\ [][NextRunCityChecks]_vars

\* ----------------------------------------------------------------- click_next
\* click_next followed step by step: locals holds its position (pc), the
\* selector it is at (sel), the number of elements that selector matched
\* (elems) and the element it is at (elem); arg is the sequence of what it
\* has done to the page: the elements examined, scrolled to and clicked.
\*
\* An element is what the browser answers about it: is_displayed and
\* is_enabled (or the exception they raise), the attributes disabled (None or
\* "true", the two values the driver reports for it), aria-disabled and
\* class (its names), the get_attribute call that raises, if one does, and
\* what click does.
DisabledClasses == {"is-disabled", "uitk-button-disabled"}
Elements ==
    [displayed : {"True", "False", WebDriverException},
     disabled : {None, "true"},
     aria_disabled : {None, "True"},
     class : {<<"uitk-button">>, <<"uitk-button", "is-disabled">>},
     attr_raises : {None, "disabled", "class"},
     enabled : {"True", "False", WebDriverException},
     click : {"ok", WebDriverException}]

lower(v) == IF v = "True" THEN "true" ELSE v

\* _is_disabled answering False whatever the marks
_is_disabled_marks_unread(elem) == FALSE

\* search._is_disabled: the three marks in turn; a get_attribute that raises
\* makes it answer False
_is_disabled(elem) ==
    IF elem.attr_raises = "disabled" THEN FALSE
    ELSE IF elem.disabled # None /\ elem.disabled \notin {"", "false", "False"}
    THEN TRUE
    ELSE IF elem.attr_raises = "aria-disabled" THEN FALSE
    ELSE IF elem.aria_disabled # None /\ lower(elem.aria_disabled) = "true"
    THEN TRUE
    ELSE IF elem.attr_raises = "class" THEN FALSE
    ELSE \E i \in DOMAIN elem.class : elem.class[i] \in DisabledClasses

InitClickNext ==
    /\ AtRest
    /\ call = "click_next"
    /\ arg = <<>>
    /\ ret = <<>>
    /\ locals = [pc |-> "for_sel", sel |-> 1, elems |-> 0, elem |-> 0]

\* "for sel in selectors": find_elements, which is not guarded; after the
\* last selector, return False
ClickNextSelector ==
    /\ call = "click_next"
    /\ locals.pc = "for_sel"
    /\ IF locals.sel > MaxSelectors
       THEN /\ locals' = [locals EXCEPT !.pc = "returned"]
            /\ ret' = << [raised |-> None, value |-> "False"] >>
            /\ arg' = arg
       ELSE \E find_elements \in {"ok", WebDriverException}, found \in 0..MaxElems :
              IF find_elements # "ok"
              THEN /\ locals' = [locals EXCEPT !.pc = "returned"]
                   /\ ret' = << [raised |-> find_elements, value |-> None] >>
                   /\ arg' = Append(arg, [op |-> "find_elements_raises",
                                          sel |-> locals.sel, elem |-> 0])
              ELSE /\ locals' = IF found = 0
                                THEN [locals EXCEPT !.sel = @ + 1]
                                ELSE [locals EXCEPT !.pc = "for_elem",
                                                    !.elems = found, !.elem = 1]
                   /\ ret' = ret
                   /\ arg' = arg
    /\ UNCHANGED <<mainvars, call>>

\* "for elem in elems": the three tests, then scrollIntoView (guarded) and
\* click (guarded); after the last element, the next selector
ClickNextElement ==
    /\ call = "click_next"
    /\ locals.pc = "for_elem"
    /\ IF locals.elem > locals.elems
       THEN /\ locals' = [locals EXCEPT !.pc = "for_sel", !.sel = @ + 1]
            /\ UNCHANGED <<arg, ret>>
       ELSE \E e \in Elements, scrollIntoView \in {"ok", WebDriverException} :
              LET at == [sel |-> locals.sel, elem |-> locals.elem]
                  examined == Append(arg, [op |-> "examine"] @@ at)
                  clicked == examined \o << [op |-> "scrollIntoView"] @@ at,
                                            [op |-> "click", e |-> e] @@ at >>
                  next == [locals EXCEPT !.elem = @ + 1]
                  done == [locals EXCEPT !.pc = "returned"]
              IN
              IF e.displayed = WebDriverException
              THEN /\ locals' = done
                   /\ ret' = << [raised |-> e.displayed, value |-> None] >>
                   /\ arg' = examined
              ELSE IF e.displayed = "False" \/ _is_disabled(e)
              THEN locals' = next /\ ret' = ret /\ arg' = examined
              ELSE IF e.enabled = WebDriverException
              THEN /\ locals' = done
                   /\ ret' = << [raised |-> e.enabled, value |-> None] >>
                   /\ arg' = examined
              ELSE IF e.enabled = "False"
              THEN locals' = next /\ ret' = ret /\ arg' = examined
              ELSE IF e.click = "ok"
              THEN /\ locals' = done
                   /\ ret' = << [raised |-> None, value |-> "True"] >>
                   /\ arg' = clicked
              ELSE locals' = next /\ ret' = ret /\ arg' = clicked
    /\ UNCHANGED <<mainvars, call>>

NextClickNext ==
    \/ ClickNextSelector
    \/ ClickNextElement

SpecClickNext == InitClickNext /\ [][NextClickNext]_vars

\* ---------------------------------------------- click_dialog_and_collect
\* extract_amenities followed step by step through its call of
\* click_dialog_and_collect: locals holds the position (pc), the items read
\* from the page itself (popular), what open_dialog_by_button returned
\* (opened), the items read from the dialog (items) and what
\* click_dialog_and_collect returned (more, <<list>> once it has); arg is the
\* sequence of the browser calls made and of their failures.
AMENITIES_KEYWORDS == <<"amenities">>
ButtonTexts == {"", "Share", "See all 25 amenities"}
Buttons == UNION { [1..n -> ButtonTexts] : n \in 0..MaxButtons }
ItemTexts == {"", "Wifi", "Pool"}
ItemLists == UNION { [1..n -> ItemTexts] : n \in 0..MaxDialogItems }

\* "k in txt_lower", for the texts above
contains(txt_lower, k) ==
    <<txt_lower, k>> \in { <<"see all 25 amenities", "amenities">> }
text_lower(txt) == IF txt = "See all 25 amenities" THEN "see all 25 amenities"
                   ELSE IF txt = "Share" THEN "share" ELSE txt

\* the first button whose text holds every keyword, 0 when there is none
trigger_button(buttons, keywords) ==
    LET hits == {i \in DOMAIN buttons :
                    /\ buttons[i] # ""
                    /\ \A k \in DOMAIN keywords :
                          contains(text_lower(buttons[i]), keywords[k])}
    IN IF hits = {} THEN 0 ELSE CHOOSE i \in hits : \A j \in hits : i <= j

\* open_dialog_by_button with "except Exception" narrowed to the click
open_dialog_by_button_wait_unguarded(buttons, keywords, click, wait) ==
    IF trigger_button(buttons, keywords) = 0
    THEN [raised |-> None, value |-> None, calls |-> <<"button_not_found">>]
    ELSE IF click # "ok"
    THEN [raised |-> None, value |-> None,
          calls |-> <<"scrollIntoView", "click_raises">>]
    ELSE IF wait # "ok"
    THEN [raised |-> wait, value |-> None,
          calls |-> <<"scrollIntoView", "click", "wait_times_out">>]
    ELSE [raised |-> None, value |-> "True",
          calls |-> <<"scrollIntoView", "click", "wait">>]

\* detail.open_dialog_by_button after find_elements: the first button whose
\* text holds every keyword is scrolled to and clicked, then the dialog is
\* waited for; a click or a wait that raises gives None
open_dialog_by_button(buttons, keywords, click, wait) ==
    IF trigger_button(buttons, keywords) = 0
    THEN [raised |-> None, value |-> None, calls |-> <<"button_not_found">>]
    ELSE IF click # "ok"
    THEN [raised |-> None, value |-> None,
          calls |-> <<"scrollIntoView", "click_raises">>]
    ELSE IF wait # "ok"
    THEN [raised |-> None, value |-> None,
          calls |-> <<"scrollIntoView", "click", "wait_times_out">>]
    ELSE [raised |-> None, value |-> "True",
          calls |-> <<"scrollIntoView", "click", "wait">>]

InitExtractAmenities ==
    /\ AtRest
    /\ call = "extract_amenities"
    /\ arg = <<>>
    /\ ret = <<>>
    /\ locals = [pc |-> "popular", popular |-> <<>>, opened |-> None,
                 items |-> <<>>, more |-> <<>>]

\* extract_amenities, the items of #PopularAmenities (guarded: an exception
\* leaves the items read so far)
ExtractAmenitiesPopular ==
    /\ call = "extract_amenities"
    /\ locals.pc = "popular"
    /\ \E popular \in ItemLists :
        locals' = [locals EXCEPT !.pc = "open_dialog_by_button",
                       !.popular = SelectSeq(popular, LAMBDA txt : txt # "")]
    /\ UNCHANGED <<mainvars, call, arg, ret>>

\* click_dialog_and_collect up to "if not open_dialog_by_button(...): return
\* []"; find_elements is not guarded
ClickDialogOpen ==
    /\ call = "extract_amenities"
    /\ locals.pc = "open_dialog_by_button"
    /\ \E find_elements \in {"ok", WebDriverException}, buttons \in Buttons,
          click \in {"ok", WebDriverException}, wait \in {"ok", TimeoutException} :
        LET r == open_dialog_by_button(buttons, AMENITIES_KEYWORDS, click, wait) IN
        IF find_elements # "ok"
        THEN /\ locals' = [locals EXCEPT !.pc = "returned"]
             /\ arg' = Append(arg, "find_elements_raises")
             /\ ret' = << [raised |-> find_elements, popular |-> <<>>, combined |-> <<>>] >>
        ELSE IF r.raised # None
        THEN /\ locals' = [locals EXCEPT !.pc = "returned"]
             /\ arg' = arg \o r.calls
             /\ ret' = << [raised |-> r.raised, popular |-> <<>>, combined |-> <<>>] >>
        ELSE /\ locals' = IF r.value = "True"
                          THEN [locals EXCEPT !.pc = "find_element", !.opened = r.value]
                          ELSE [locals EXCEPT !.pc = "unique_list", !.opened = r.value,
                                              !.more = << <<>> >>]
             /\ arg' = arg \o r.calls
             /\ ret' = ret
    /\ UNCHANGED <<mainvars, call>>

\* the dialog root: "except Exception: return []"
ClickDialogRoot ==
    /\ call = "extract_amenities"
    /\ locals.pc = "find_element"
    /\ \E find_element \in {"ok", WebDriverException} :
        IF find_element = "ok"
        THEN /\ locals' = [locals EXCEPT !.pc = "collect"]
             /\ arg' = Append(arg, "find_element")
        ELSE /\ locals' = [locals EXCEPT !.pc = "unique_list", !.more = << <<>> >>]
             /\ arg' = Append(arg, "find_element_raises")
    /\ UNCHANGED <<mainvars, call, ret>>

\* the items of the dialog: find_elements is not guarded, safe_text is
ClickDialogCollect ==
    /\ call = "extract_amenities"
    /\ locals.pc = "collect"
    /\ \E find_elements \in {"ok", WebDriverException}, texts \in ItemLists :
        IF find_elements = "ok"
        THEN /\ locals' = [locals EXCEPT !.pc = "close_dialog",
                             !.items = SelectSeq(texts, LAMBDA txt : txt # "")]
             /\ arg' = Append(arg, "items")
             /\ ret' = ret
        ELSE /\ locals' = [locals EXCEPT !.pc = "returned"]
             /\ arg' = Append(arg, "items_raises")
             /\ ret' = << [raised |-> find_elements, popular |-> <<>>, combined |-> <<>>] >>
    /\ UNCHANGED <<mainvars, call>>

\* close_dialog (the close button, else the escape key, both guarded) and
\* "return items"
ClickDialogClose ==
    /\ call = "extract_amenities"
    /\ locals.pc = "close_dialog"
    /\ \E button \in {"ok", WebDriverException}, escape \in {"ok", WebDriverException} :
        arg' = arg \o (IF button = "ok" THEN <<"close_dialog", "close_button">>
                       ELSE <<"close_dialog", "escape_key">>)
    /\ locals' = [locals EXCEPT !.pc = "unique_list", !.more = << locals.items >>]
    /\ UNCHANGED <<mainvars, call, ret>>

\* extract_amenities, "combined = unique_list(popular + more)"
ExtractAmenitiesCombine ==
    /\ call = "extract_amenities"
    /\ locals.pc = "unique_list"
    /\ locals' = [locals EXCEPT !.pc = "returned"]
    /\ ret' = << [raised |-> None, popular |-> locals.popular,
                  combined |-> unique_list(locals.popular \o locals.more[1])] >>
    /\ UNCHANGED <<mainvars, call, arg>>

NextExtractAmenities ==
    \/ ExtractAmenitiesPopular
    \/ ClickDialogOpen
    \/ ClickDialogRoot
    \/ ClickDialogCollect
    \/ ClickDialogClose
    \/ ExtractAmenitiesCombine

SpecExtractAmenities == InitExtractAmenities /\ [][NextExtractAmenities]_vars

\* ------------------------------------------ scrape_detail_page, its calls
\* the input() that follows is_blocked, with the page loaded and waited for
\* once more after it
blocked_input_then_reload(blocked) ==
    IF blocked THEN <<"input", "get", "wait">> ELSE <<>>

\* scrape_detail_page: "if is_blocked(driver): ... input()"
blocked_input(blocked) == IF blocked THEN <<"input">> ELSE <<>>

\* what scrape_detail_page does to the browser and the terminal on one
\* visit, in order: the page load, the heading wait, the block check and its
\* pause, the extraction
scrape_detail_page_calls(page) ==
    IF page.get # "ok" THEN <<"get">>
    ELSE IF page.heading = "timeout"
    THEN <<"get", "wait", "is_blocked">> \o blocked_input(page.blocked)
    ELSE <<"get", "wait", "is_blocked">> \o blocked_input(page.blocked)
            \o <<"extract">>

\* ------------------------------------------- main, with a run_end that fails
\* main with the calls that end the run able to fail: write_text of run_end
\* raises OSError when the file cannot be written, and log raises it when
\* print cannot write the line (the log file itself is guarded); the run has
\* one city, one page per city and one detail target
InitMainEnd ==
    /\ Init
    /\ VRBO_FRESH_PROFILE = FALSE
    /\ VRBO_MAX_PAGES = 1
    /\ VRBO_MAX_DETAIL_TARGETS = 1
    /\ Len(cities_file.cities) = 1

\* main, success path: db.run_end(run_id, True, "ok") and the log line, any
\* of which may raise into main's handler
RunEndFallible ==
    /\ pc = "run_end"
    /\ \E fails \in {"no", "write_text", "log"} :
        /\ output_file' = IF fails = "write_text" THEN output_file
                          ELSE run_end(_results, run_id, TRUE)
        /\ events' = IF fails = "no" THEN Append(events, "run_end_true")
                     ELSE events \o <<"run_end_true", raise_event(OSError)>>
        /\ exc' = IF fails = "no" THEN exc ELSE OSError
        /\ pc' = IF fails = "no" THEN "finally" ELSE raise_in_try(OSError)
    /\ UNCHANGED <<fixedvars, force_fresh, driver, run_id, _targets,
                   _next_target_id, _results, cityvars, detailvars>>

\* main's handler: db.run_end(run_id, False, str(exc)), the log line, raise;
\* an exception of the first two leaves the handler in place of exc
ExceptFallible ==
    /\ pc = "except"
    /\ \E fails \in {"no", "write_text", "log"} :
        /\ output_file' = IF fails = "write_text" THEN output_file
                          ELSE run_end(_results, run_id, FALSE)
        /\ events' = IF fails = "no" THEN events \o <<"run_end_false", "raise">>
                     ELSE events \o <<"run_end_false", raise_event(OSError)>>
        /\ exc' = IF fails = "no" THEN exc ELSE OSError
        /\ pc' = "finally"
    /\ UNCHANGED <<fixedvars, force_fresh, driver, run_id, _targets,
                   _next_target_id, _results, cityvars, detailvars>>

NextMainEnd ==
    \/ LoadCities
    \/ StartDriver
    \/ InjectCookies
    \/ RunStart
    \/ RunCityEnter
    \/ RunCityPage
    \/ ProcessDetailTargets
    \/ DetailTarget
    \/ RunEndFallible
    \/ ExceptFallible
    \/ Finally

SpecMainEnd == InitMainEnd /\ [][NextMainEnd]_vars

\* ------------------------------------------- scroll_page, measurements settle
\* the scroll loop with a container found and every script call succeeding:
\* the measurements change from one pass to the next until they settle, and
\* from then on each pass reads the same pair; arg is <<>> before that and
\* <<the pair>> after
InitScrollPageSettles ==
    /\ AtRest
    /\ call = "scroll_page"
    /\ arg = <<>>
    /\ ret = <<>>
    /\ locals = [pc |-> "while", stable_at_bottom |-> 0, last_seen |-> -1]

\* one pass of "while stable_at_bottom < 3" with no script failure
ScrollPageWhileSettling ==
    /\ call = "scroll_page"
    /\ locals.pc = "while"
    /\ locals.stable_at_bottom < 3
    /\ \E m \in Measurements, settles \in BOOLEAN :
        /\ arg # <<>> => m = arg[1]
        /\ locals' = scroll_observe(locals, m.current, m.total)
        /\ arg' = IF arg # <<>> \/ settles THEN <<m>> ELSE <<>>
    /\ UNCHANGED <<mainvars, call, ret>>

NextScrollPageSettles ==
    \/ ScrollPageWhileSettling
    \/ ScrollPageWhileEnd
    \/ ScrollPageBottom

\* scroll_page keeps running: a pass, the end of the loop or the return that
\* can be taken is taken
SpecScrollPageSettles ==
    InitScrollPageSettles /\ [][NextScrollPageSettles]_vars
        /\ WF_vars(NextScrollPageSettles)

\* ---------------------------------------------------------------- claims
\* C1: within one run no two Targets of the store carry the same normalized
\* URL, whatever city or page the cards came from.
C1_UniqueNormalizedUrl ==
    \A i, j \in DOMAIN _targets :
        (i # j /\ _targets[i].run_id = _targets[j].run_id)
            => _targets[i].value # _targets[j].value

\* C2: when the scrape of a target raises, the target ends in status "error",
\* no Record is appended for it, the exception does not leave
\* process_detail_targets (nothing is raised once the detail phase has begun)
\* and every target of the list has been scraped when the loop is over.
C2_ScrapeErrorIsolated ==
    /\ \A s \in scraped :
          s.raised # None => (RowOf(s.id).status = "error" /\ ~s.data)
    /\ Len(_results) = Cardinality({s \in scraped : s.data})
    /\ \A d \in EventsAt({"process_detail_targets"}) :
          /\ pc # "except"
          /\ exc = None
          /\ \A i \in EventsAt(ExceptionEvents \cup {"run_end_false"}) : i < d
    /\ DetailOver =>
          \A k \in DOMAIN targets : \E s \in scraped : s.id = targets[k]

C2_Witness ==
    /\ pc = "run_end"
    /\ Len(targets) >= 2
    /\ \E s \in scraped : s.id = targets[1] /\ s.raised # None
    /\ \E s \in scraped : s.id = targets[2] /\ s.data

\* C3: the Records are exactly the "done" Targets: as many Records as Targets
\* with status "done", the i-th Record carrying the normalized URL of the i-th
\* done Target, and a Target is "done" exactly when its scrape returned data.
C3_RecordsAreDoneTargets ==
    /\ Len(_results) = Len(DoneRows)
    /\ \A i \in DOMAIN _results : _results[i].url = DoneRows[i].value
    /\ \A i \in DOMAIN _targets :
          _targets[i].status = "done"
              <=> (\E s \in scraped : s.id = _targets[i].id /\ s.data)

C3_Witness ==
    /\ pc = "exited"
    /\ \E i \in DOMAIN _targets : _targets[i].status = "done"
    /\ \E i \in DOMAIN _targets : _targets[i].status = "empty"
    /\ \E i \in DOMAIN _targets : _targets[i].status = "error"
    /\ Len(_results) = 1

C5_RunEndAlwaysWrites ==
    /\ (pc \in {"finally", "exited"} /\ Happened("run_start")) =>
          output_file = << [run_id |-> run_id, content |-> _results] >>
    /\ \A i \in EventsAt({"raise", "quit"}) :
          Happened("run_start") =>
              \E j \in EventsAt({"run_end_true", "run_end_false"}) : j < i

C5_Witness ==
    /\ pc = "exited"
    /\ exc # None
    /\ Happened("run_start")
    /\ _targets # <<>>
    /\ output_file = << [run_id |-> run_id, content |-> <<>>] >>

\* C6: once start_driver has returned a browser, main closes it exactly once
\* before it exits; after a failure past run_start the trace ends with
\* run_end(success=false), the re-raise, the quit, in that order, and the
\* exception the caller sees is the one that was raised.
C6_BrowserClosedOnce ==
    /\ Cardinality(EventsAt({"quit"})) <= 1
    /\ driver = "closed" <=> Happened("quit")
    /\ (pc = "exited" /\ driver # "none") =>
          (driver = "closed" /\ events[Len(events)] = "quit")
    /\ (pc = "exited" /\ Happened("run_start") /\ exc # None) =>
          /\ Len(events) >= 4
          /\ SubSeq(events, Len(events) - 3, Len(events))
                = <<raise_event(exc), "run_end_false", "raise", "quit">>
    /\ \A i \in EventsAt(ExceptionEvents), r \in EventsAt({"run_start"}) :
          (i > r /\ pc = "exited") => events[i] = raise_event(exc)

C6_Witness ==
    /\ pc = "exited"
    /\ exc = WebDriverException
    /\ Happened("run_end_false")
    /\ driver = "closed"

\* C7: start_driver launches the browser at most twice; a second launch
\* happens only after a session-not-created failure on the persistent
\* profile, follows the deletion of that profile directory and uses a
\* temporary profile; a session-not-created failure on a temporary profile
\* leaves start_driver with no further launch.
C7_OneShotProfileReset ==
    LET launches == EventsAt({"launch_persistent", "launch_temporary"})
        snc == raise_event(SessionNotCreatedException)
    IN
    /\ Cardinality(launches) <= 2
    /\ \A i \in launches :
          i > 1 =>
              /\ ~VRBO_FRESH_PROFILE
              /\ i = 4
              /\ SubSeq(events, 1, 4) = <<"launch_persistent", snc,
                                          "rmtree_persistent", "launch_temporary">>
    /\ \A i \in EventsAt({"rmtree_persistent", "rmtree_temporary"}) :
          /\ i = 3
          /\ events[i] = "rmtree_persistent"
          /\ events[2] = snc
          /\ IF Len(events) = 3
             THEN pc = "start_driver" /\ force_fresh
             ELSE events[4] = "launch_temporary"
    /\ \A i \in EventsAt({snc}) :
          events[i - 1] = "launch_temporary" =>
              /\ i = Len(events)
              /\ pc = "exited"
              /\ exc = SessionNotCreatedException
              /\ driver = "none"
    /\ \A i \in EventsAt({snc}) :
          events[i - 1] = "launch_persistent" =>
              (i = 2 /\ Len(events) >= 3 /\ events[3] = "rmtree_persistent")
    /\ (events # <<>> /\ events[1] = "launch_persistent") => ~VRBO_FRESH_PROFILE

C7_Witness ==
    /\ pc = "exited"
    /\ exc = SessionNotCreatedException
    /\ events = <<"launch_persistent", raise_event(SessionNotCreatedException),
                  "rmtree_persistent", "launch_temporary",
                  raise_event(SessionNotCreatedException)>>

C9_PageLimit ==
    /\ Len(page_new) = page_num
    /\ VRBO_MAX_PAGES > 0 =>
          /\ page_num <= VRBO_MAX_PAGES
          /\ \A p \in click_pages : p < VRBO_MAX_PAGES
    /\ stop_reason = "max_pages" =>
          (VRBO_MAX_PAGES > 0 /\ page_num = VRBO_MAX_PAGES)

C9_Witness ==
    /\ VRBO_MAX_PAGES = 2
    /\ pc = "for_city"
    /\ stop_reason = "max_pages"
    /\ page_num = 2
    /\ click_pages = {1}

\* the page limit switched off: run_city goes past page MaxPagesCfg
C9_UnlimitedReached == VRBO_MAX_PAGES = 0 /\ page_num > MaxPagesCfg

\* C10: when page 1 of a city yields n >= 1 new urls and page 2 yields none,
\* run_city returns having registered exactly n Targets, all queued, with
\* page 2 the last page visited and no click towards page 3.
C10_StopsAfterPageWithoutNew ==
    (pc = "for_city" /\ ci > 1 /\ Len(page_new) >= 2
        /\ page_new[1] >= 1 /\ page_new[2] = 0) =>
        /\ Len(_targets) - city_base = page_new[1]
        /\ \A i \in DOMAIN _targets : i > city_base => _targets[i].status = "queued"
        /\ page_num = 2
        /\ Len(page_new) = 2
        /\ click_pages = {1}
        /\ stop_reason \in {"no_new", "no_cards"}

C10_Witness ==
    /\ pc = "for_city"
    /\ ci > 1
    /\ page_new = <<2, 0>>
    /\ stop_reason = "no_new"
    /\ Len(_targets) - city_base = 2

\* C11: a search page that matches no card selector and carries no block
\* marker ends run_city on that page: no Target is added, click_next is not
\* called and there is no pause on input(); when that page is the city's
\* first, run_city has returned after one page with nothing registered.
C11_NoCardsEndsCity ==
    /\ pc = "city_page" =>
          \A page \in SearchPages :
              (scroll_page(page.scroll) = "ok" /\ page.extract = "ok"
                  /\ page.hrefs = <<>> /\ page.blocked = "no") =>
                  LET r == run_city_page(page) IN
                  /\ r.outcome = "no_cards"
                  /\ r.rows = _targets
                  /\ r.next_id = _next_target_id
                  /\ r.page_num = page_num
                  /\ r.click_pages = click_pages
                  /\ r.paused = paused
    /\ (pc = "for_city" /\ ci > 1 /\ stop_reason = "no_cards" /\ page_num = 1) =>
          /\ Len(_targets) = city_base
          /\ page_new = <<0>>
          /\ click_pages = {}
          /\ exc = None

C11_Witness ==
    /\ pc = "for_city"
    /\ ci = 2
    /\ stop_reason = "no_cards"
    /\ page_num = 1
    /\ ~paused
    /\ _targets = <<>>

\* C12: main runs its phases in a fixed order in one browser session: the
\* cookie injection (at most once, only when cookies are configured), then
\* run_start, then run_city for the cities in configuration order, then
\* process_detail_targets, then run_end; no detail page is visited before the
\* last city's search is over, and the run has exactly one started session.
C12_PhaseOrder ==
    LET launches == EventsAt({"launch_persistent", "launch_temporary"})
        sessions == {i \in launches :
                        i = Len(events) \/ events[i + 1] \notin ExceptionEvents}
        inject == EventsAt({"inject_cookies"})
        start == EventsAt({"run_start"})
        search == EventsAt({"run_city"})
        detail == EventsAt({"process_detail_targets"})
        end == EventsAt({"run_end_true", "run_end_false"})
        phases == inject \cup start \cup search \cup detail \cup end
    IN
    /\ Cardinality(sessions) <= 1
    /\ phases # {} => (Cardinality(sessions) = 1 /\ \A s \in sessions, i \in phases : s < i)
    /\ (phases # {} /\ pc # "exited") => driver = "open"
    /\ Cardinality(inject) <= 1 /\ Cardinality(start) <= 1
    /\ Cardinality(detail) <= 1 /\ Cardinality(end) <= 1
    /\ inject # {} => VRBO_COOKIES
    /\ (start # {} /\ VRBO_COOKIES) => inject # {}
    /\ \A i \in inject, j \in start : i < j
    /\ \A i \in start, j \in search \cup detail \cup end : i < j
    /\ \A i \in search, j \in detail \cup end : i < j
    /\ \A i \in detail, j \in end : i < j
    /\ (search \cup detail \cup end) # {} => start # {}
    /\ pc = "city_page" => (Cardinality(search) = ci /\ ci <= Len(cities))
    /\ pc = "for_city" => (Cardinality(search) = ci - 1 /\ ci <= Len(cities) + 1)
    /\ detail # {} => Cardinality(search) = Len(cities)
    /\ (scraped # {} \/ pc = "detail_loop") => detail # {}
    /\ Happened("run_end_true") => detail # {}

C12_Witness ==
    /\ pc = "exited"
    /\ scraped # {}
    /\ events = <<"launch_persistent", "inject_cookies", "run_start", "run_city",
                  "run_city", "process_detail_targets", "run_end_true", "quit">>

\* C13: when the cities file is absent load_cities writes the sample and
\* raises, and when the file lists no city it raises; main then exits with
\* that exception before any browser launch, run id or output file. The
\* sample is never loaded in the run that wrote it.
C13_NoCitiesNoRun ==
    /\ pc = "load_cities" =>
          LET r == load_cities(cities_file) IN
          /\ ~cities_file.exists =>
                (r.raised = RuntimeError /\ r.file.exists /\ r.file.cities = sample)
          /\ (cities_file.exists /\ cities_file.json /\ cities_file.cities = <<>>) =>
                (r.raised = RuntimeError /\ r.file = cities_file)
    /\ pc # "load_cities" => cities_file.exists
    /\ (pc # "load_cities" /\ cities_file.cities \in {sample, <<>>}) =>
          /\ pc = "exited"
          /\ exc \in {RuntimeError, JSONDecodeError}
          /\ cities = <<>>
          /\ events = <<>>
          /\ driver = "none"
          /\ run_id = 0
          /\ output_file = <<>>
    /\ (events # <<>> \/ driver # "none" \/ run_id # 0 \/ output_file # <<>>) =>
          (cities # <<>> /\ cities = cities_file.cities)

C13_Witness ==
    /\ pc = "exited"
    /\ exc = RuntimeError
    /\ cities_file = [exists |-> TRUE, json |-> TRUE, cities |-> sample]
    /\ events = <<>>

\* C14: one step of the program keeps every Target in the store with its
\* id, run id, type and urls, adds Targets only as "queued", keeps every
\* status among queued, done, empty, error, and changes a status only from
\* queued to done, empty or error.
C14_TargetLifecycle ==
    [][ /\ Len(_targets') >= Len(_targets)
        /\ \A i \in DOMAIN _targets' :
              _targets'[i].status \in {"queued", "done", "empty", "error"}
        /\ \A i \in DOMAIN _targets' :
              i \notin DOMAIN _targets => _targets'[i].status = "queued"
        /\ \A i \in DOMAIN _targets :
              /\ [_targets'[i] EXCEPT !.status = "queued"]
                    = [_targets[i] EXCEPT !.status = "queued"]
              /\ _targets'[i].status # _targets[i].status =>
                    /\ _targets[i].status = "queued"
                    /\ _targets'[i].status \in {"done", "empty", "error"} ]_vars

C14_Witness ==
    /\ pc = "detail_loop"
    /\ ti = 2
    /\ Len(_targets) = 2
    /\ _targets[1].status = "empty"
    /\ _targets[2].status = "queued"

\* C15: with VRBO_MAX_DETAIL_TARGETS = N > 0 process_detail_targets takes the
\* first N Targets in discovery order (all of them when there are fewer),
\* scrapes them in that order and leaves every other Target queued; with 0 it
\* takes them all, and none is queued when it returns.
C15_DetailLimit ==
    Happened("process_detail_targets") =>
        LET n == IF VRBO_MAX_DETAIL_TARGETS > 0
                 THEN Min(VRBO_MAX_DETAIL_TARGETS, Len(_targets))
                 ELSE Len(_targets)
        IN
        /\ targets = [i \in 1..n |-> _targets[i].id]
        /\ {s.id : s \in scraped} = {targets[k] : k \in 1..(ti - 1)}
        /\ \A i \in DOMAIN _targets :
              (i > n \/ (pc = "detail_loop" /\ i >= ti)) <=> _targets[i].status = "queued"
        /\ VRBO_MAX_DETAIL_TARGETS = 0 =>
              (DetailOver => \A i \in DOMAIN _targets : _targets[i].status # "queued")

C15_Witness ==
    /\ VRBO_MAX_DETAIL_TARGETS = 1
    /\ pc = "exited"
    /\ Len(_targets) = 3
    /\ _targets[1].status = "done"
    /\ _targets[2].status = "queued"
    /\ _targets[3].status = "queued"

\* C16 as stated: for every href the url clean_url returns has an empty query
\* and an empty fragment, the href's scheme, host and path with the site's
\* scheme and host where the href has none, and clean_url of it is itself.
C16_CleanUrlNormalizes ==
    (call = "clean_url" /\ ret # <<>>) =>
        \A u \in {urlparse(arg)}, out \in {urlparse(ret[1])},
           base \in {urlparse(VRBO_BASE)} :
            /\ out.query = <<>>
            /\ out.fragment = <<>>
            /\ out.scheme = IF u.scheme # <<>> THEN u.scheme ELSE base.scheme
            /\ out.netloc = IF u.netloc # <<>> THEN u.netloc ELSE base.netloc
            /\ out.path = u.path
            /\ Len(ret) = 2 => ret[2] = ret[1]

\* C16 as amended: for every href urlparse accepts, the url clean_url returns
\* has an empty query and an empty fragment, the href's scheme and host with
\* the site's where the href has none, and the href's path, behind a "/" when
\* that path is not empty and does not begin with one; an href urlparse
\* rejects is returned unchanged; and clean_url of any result is that result.
C16_CleanUrlNormalizesParsed ==
    (call = "clean_url" /\ ret # <<>>) =>
        \A u \in {urlparse(arg)}, out \in {urlparse(ret[1])},
           base \in {urlparse(VRBO_BASE)} :
            /\ u.raised # None => ret[1] = arg
            /\ u.raised = None =>
                  /\ out.raised = None
                  /\ out.query = <<>>
                  /\ out.fragment = <<>>
                  /\ out.scheme = IF u.scheme # <<>> THEN u.scheme ELSE base.scheme
                  /\ out.netloc = IF u.netloc # <<>> THEN u.netloc ELSE base.netloc
                  /\ out.path = IF u.path # <<>> /\ u.path[1] # "/"
                                THEN <<"/">> \o u.path ELSE u.path
            /\ Len(ret) = 2 => ret[2] = ret[1]

C16_Witness ==
    /\ call = "clean_url"
    /\ arg = <<"/", "a", "?", "a", "#">>
    /\ ret = << <<"https", ":", "/", "/", "www.vrbo.com", "/", "a">>,
                <<"https", ":", "/", "/", "www.vrbo.com", "/", "a">> >>

\* the parameters build_entry_url overlays on a search url
Overlaid ==
    {"checkIn", "startDate", "d1", "checkOut", "endDate", "d2", "adults",
     "children", "regionId", "sort"}

\* C17: from a city with a search url, build_entry_url returns a url that
\* has every query parameter of the search url outside the overlaid ones,
\* with its value, and whose adults parameter is the city's adult count.
C17_OtherParametersRetained ==
    (call = "build_entry_url" /\ ret # <<>> /\ arg.search_url # <<>>) =>
        LET before == parse_qsl(arg.search_url[1].query)
            after == parse_qsl(ret[1].query)
        IN
        /\ \A i \in DOMAIN before :
              before[i].k \notin Overlaid =>
                  \E j \in DOMAIN after : after[j] = before[i]
        /\ \E j \in DOMAIN after :
              after[j] = [k |-> "adults", v |-> ToString(arg.adults)]
        /\ \A j \in DOMAIN after :
              after[j].k = "adults" => after[j].v = ToString(arg.adults)

\* C18: the url build_entry_url returns, overlaid or synthesized, has a
\* children parameter only when the city's children count is above 0.
C18_ChildrenOnlyWhenPositive ==
    (call = "build_entry_url" /\ ret # <<>>) =>
        ((\E j \in DOMAIN ret[1].query : ret[1].query[j].k = "children")
            => arg.children > 0)

\* C19: with force-tomorrow on, ensure_dates sets check-in to today + 1 and
\* check-out to check-in + max(1, nights) whatever dates the city had, so
\* check-out is after check-in; with force-tomorrow off it does the same
\* when a date is missing and leaves a city with both dates as it is.
C19_DefaultDates ==
    (call = "ensure_dates" /\ ret # <<>>) =>
        LET c == arg.c
            out == ret[1]
            nights == IF c.nights >= 1 THEN c.nights ELSE 1
            defaults == /\ out.checkin = isoformat(arg.today + 1)
                        /\ out.checkout = isoformat(arg.today + 1 + nights)
                        /\ out.checkout[1] > out.checkin[1]
                        /\ out.nights = c.nights
        IN
        /\ arg.VRBO_FORCE_TOMORROW => defaults
        /\ (~arg.VRBO_FORCE_TOMORROW /\ (c.checkin = <<>> \/ c.checkout = <<>>))
              => defaults
        /\ (~arg.VRBO_FORCE_TOMORROW /\ c.checkin # <<>> /\ c.checkout # <<>>)
              => out = c

C19_Witness ==
    /\ call = "ensure_dates"
    /\ arg.VRBO_FORCE_TOMORROW
    /\ arg.today = 1
    /\ arg.c = [nights |-> 0, checkin |-> isoformat(2), checkout |-> isoformat(0)]
    /\ ret = << [nights |-> 0, checkin |-> isoformat(2), checkout |-> isoformat(3)] >>

\* C20: unique_list returns the distinct non-empty items of its input in the
\* order of their first occurrence: no item twice, every non-empty item of
\* the input and no other, each before the items that first occur later
\* (so a subsequence of the input), and unique_list of the result is the
\* result; [b, a, b, c, a] gives [b, a, c].
C20_UniqueListFirstOccurrences ==
    (call = "unique_list" /\ ret # <<>>) =>
        LET out == ret[1]
            first(x) == CHOOSE i \in DOMAIN arg :
                            arg[i] = x /\ \A j \in 1..(i - 1) : arg[j] # x
        IN
        /\ \A i, j \in DOMAIN out : i # j => out[i] # out[j]
        /\ {out[i] : i \in DOMAIN out} = {arg[i] : i \in DOMAIN arg} \ {""}
        /\ \A i, j \in DOMAIN out : i < j => first(out[i]) < first(out[j])
        /\ arg = <<"b", "a", "b", "c", "a">> => out = <<"b", "a", "c">>
        /\ Len(ret) = 2 => ret[2] = out

C20_Witness ==
    /\ call = "unique_list"
    /\ arg = <<"b", "a", "b", "c", "a">>
    /\ ret = << <<"b", "a", "c">>, <<"b", "a", "c">> >>

\* C21: parse_price_amount never raises; it returns None for the empty text
\* and for a text without a digit; otherwise it takes the run of digits, dots
\* and commas that starts at the first digit, drops the dots and reads the
\* comma as the decimal point: with at most one comma in the run the result
\* is the number whose integer part is the digits before the comma and whose
\* decimals are the digits after it; "1.234,56 USD" gives 1234.56.
C21_ParsePriceAmount ==
    (call = "parse_price_amount" /\ ret # <<>>) =>
        LET r == ret[1]
            digit(c) == c \in {"0", "1", "2", "3", "4", "5", "6", "7", "8", "9"}
            first == CHOOSE i \in DOMAIN arg :
                        digit(arg[i]) /\ \A j \in 1..(i - 1) : ~digit(arg[j])
            last == CHOOSE e \in first..Len(arg) :
                        /\ \A k \in first..e : digit(arg[k]) \/ arg[k] \in {".", ","}
                        /\ e < Len(arg) => ~(digit(arg[e + 1]) \/ arg[e + 1] \in {".", ","})
            commas == {i \in first..last : arg[i] = ","}
            comma == IF commas = {} THEN last + 1 ELSE CHOOSE i \in commas : TRUE
            whole == SelectSeq(SubSeq(arg, first, comma - 1), digit)
            decimals == SelectSeq(SubSeq(arg, comma + 1, last), digit)
        IN
        /\ r.raised = None
        /\ (\A i \in DOMAIN arg : ~digit(arg[i])) => r.value = <<>>
        /\ ((\E i \in DOMAIN arg : digit(arg[i])) /\ Cardinality(commas) <= 1) =>
              /\ r.value # <<>>
              /\ r.value[1].n * 10^Len(decimals)
                    = (int(whole) * 10^Len(decimals) + int(decimals)) * 10^(r.value[1].k)
        /\ arg = PriceExample => r.value = << [n |-> 123456, k |-> 2] >>

C21_Witness ==
    /\ call = "parse_price_amount"
    /\ arg = PriceExample
    /\ ret = << [raised |-> None, value |-> << [n |-> 123456, k |-> 2] >>] >>

\* the last three measurements of the loop all satisfy P
LastThree(P(_)) ==
    Len(arg) >= 3 /\ \A i \in (Len(arg) - 2)..Len(arg) : P(arg[i])

\* the position last_seen holds when measurement i is read: that of the
\* latest measurement before it that was not counted, -1 when there is none
RECURSIVE Reference(_)
Reference(i) ==
    IF i = 1 THEN -1
    ELSE IF /\ arg[i - 1].total # 0
            /\ arg[i - 1].current >= arg[i - 1].total - 5
            /\ abs(Reference(i - 1) - arg[i - 1].current) < 5
         THEN Reference(i - 1)
         ELSE arg[i - 1].current

\* C22 as stated: with a container found and no script failure, the loop
\* condition turns false exactly when the last three measurements each put
\* the scroll position within 5 pixels of its maximum (current >= total - 5).
C22_StopsAfterThreeAtMaximum ==
    (call = "scroll_page" /\ locals.pc = "while") =>
        (locals.stable_at_bottom >= 3
            <=> LastThree(LAMBDA m : m.current >= m.total - 5))

\* C22, amended: with a container found and no script failure, the loop
\* condition turns false exactly when the last three measurements each
\* reported a non-zero scroll height and a position within 5 pixels of it,
\* and the last two each lay less than 5 pixels from the reference position
\* (the position of the latest earlier measurement that was not counted, -1
\* at the start).
C22_StopsAfterThreeStableAtBottom ==
    (call = "scroll_page" /\ locals.pc = "while") =>
        (locals.stable_at_bottom >= 3
            <=> /\ LastThree(LAMBDA m : m.total # 0 /\ m.current >= m.total - 5)
                /\ \A i \in (Len(arg) - 1)..Len(arg) :
                      abs(Reference(i) - arg[i].current) < 5)

\* the loop has ended on its condition after a fourth measurement: three at
\* the bottom of a page that had grown were not enough
C22_Witness ==
    /\ call = "scroll_page"
    /\ locals.pc = "bottom"
    /\ locals.stable_at_bottom = 3
    /\ arg = << [current |-> 2, total |-> 2], [current |-> 100, total |-> 100],
                [current |-> 103, total |-> 103], [current |-> 100, total |-> 100] >>

\* C23: on a result page that adds no new target the pagination loop of
\* run_city calls is_blocked at most once and pauses on input() at most once
\* before it ends the pagination of the city.
C23_OneBlockedCheckPerPage ==
    (pc = "city_page" \/ (pc = "for_city" /\ ci = 2)) =>
        /\ locals.checks <= 1
        /\ locals.pauses <= 1

\* C23, amended: a pass over a result page with cards that adds no new target
\* ends the pagination at once, without a blocked-page check; a pass over a
\* page without cards makes one blocked-page check, which ends the pagination
\* when the page is not blocked and otherwise pauses once on input() and
\* leaves run_city on the same page, to be scrolled, extracted and checked
\* again: while the loop runs every check of the page has paused, and at the
\* end only the check of a last pass without cards has not.
C23_OneBlockedCheckPerPass ==
    /\ pc = "city_page" =>
          /\ locals.checks = locals.pauses
          /\ \A page \in SearchPages :
                (scroll_page(page.scroll) = "ok" /\ page.extract = "ok"
                    /\ page.blocked \in {"yes", "no"}) =>
                    LET r == run_city_page(page)
                        cards == extract_cards(page.hrefs)
                    IN
                    /\ (cards # <<>> /\ \A i \in DOMAIN cards : cards[i].url \in seen)
                          => (r.outcome = "no_new" /\ r.paused = paused)
                    /\ (cards = <<>> /\ page.blocked = "no")
                          => (r.outcome = "no_cards" /\ r.paused = paused)
                    /\ (cards = <<>> /\ page.blocked = "yes")
                          => /\ r.outcome = "continue"
                             /\ r.paused
                             /\ r.page_num = page_num
                             /\ r.rows = _targets
    /\ (pc = "for_city" /\ ci = 2) =>
          locals.checks = locals.pauses + (IF stop_reason = "no_cards" THEN 1 ELSE 0)

\* the first page was blocked and without cards on two passes in a row
C23_Witness ==
    /\ pc = "city_page"
    /\ page_num = 1
    /\ locals = [checks |-> 2, pauses |-> 2]
    /\ _targets = <<>>

\* the clicks click_next has made, and the marks that make an element
\* disabled
Clicks == {i \in DOMAIN arg : arg[i].op = "click"}
Disabled(e) ==
    \/ e.disabled # None
    \/ e.aria_disabled \in {"true", "True", "TRUE"}
    \/ \E i \in DOMAIN e.class : e.class[i] \in {"is-disabled", "uitk-button-disabled"}

\* what C24 states besides the elements it never clicks: candidates are
\* examined selector by selector and in document order within a selector,
\* each click follows a scrollIntoView of the same element, the first click
\* that succeeds returns True and a click that fails is followed by the next
\* candidate
C24_OrderAndClicks ==
    /\ \A i, j \in DOMAIN arg :
          (i < j /\ arg[i].op = "examine" /\ arg[j].op = "examine") =>
              \/ arg[i].sel < arg[j].sel
              \/ arg[i].sel = arg[j].sel /\ arg[i].elem < arg[j].elem
    /\ \A i \in Clicks :
          /\ arg[i - 1].op = "scrollIntoView"
          /\ arg[i - 1].sel = arg[i].sel /\ arg[i - 1].elem = arg[i].elem
          /\ arg[i - 2].op = "examine"
          /\ arg[i - 2].sel = arg[i].sel /\ arg[i - 2].elem = arg[i].elem
          /\ arg[i].e.click = "ok" => (i = Len(arg) /\ ret # <<>>)
          /\ (arg[i].e.click # "ok" /\ i < Len(arg)) =>
                (arg[i + 1].op = "find_elements_raises"
                    \/ (arg[i + 1].op = "examine"
                          /\ <<arg[i + 1].sel, arg[i + 1].elem>>
                                # <<arg[i].sel, arg[i].elem>>))

\* C24 as stated: click_next never clicks an element that is hidden, disabled
\* (disabled attribute, aria-disabled "true" or a disabled class) or not
\* enabled; it examines the candidates in selector order then document
\* order, scrolls to each before the click, returns True at the first click
\* that succeeds, goes on after a click that fails, and returns False exactly
\* when no click has succeeded.
C24_NeverClicksDisabled ==
    call = "click_next" =>
        /\ \A i \in Clicks :
              /\ arg[i].e.displayed = "True"
              /\ ~Disabled(arg[i].e)
              /\ arg[i].e.enabled = "True"
        /\ C24_OrderAndClicks
        /\ ret # <<>> =>
              /\ ret[1].value = "True" <=> \E i \in Clicks : arg[i].e.click = "ok"
              /\ ret[1].value = "False" <=> \A i \in Clicks : arg[i].e.click # "ok"

\* C24, amended: click_next never clicks an element that is hidden or not
\* enabled, nor one that carries a disabled mark (disabled attribute,
\* aria-disabled "true", a disabled class) unless a get_attribute call raised
\* before that mark was read; order, scrolling and clicks are as stated; when
\* it returns, it returns True exactly when a click has succeeded and False
\* exactly when none has; it raises what find_elements, is_displayed or
\* is_enabled raise, and then no click has succeeded.
C24_NeverClicksKnownDisabled ==
    call = "click_next" =>
        /\ \A i \in Clicks :
              LET e == arg[i].e IN
              /\ e.displayed = "True"
              /\ e.enabled = "True"
              /\ e.attr_raises = None => ~Disabled(e)
              /\ e.attr_raises = "aria-disabled" => e.disabled = None
              /\ e.attr_raises = "class" =>
                    (e.disabled = None /\ e.aria_disabled \notin {"true", "True", "TRUE"})
        /\ C24_OrderAndClicks
        /\ ret # <<>> =>
              /\ ret[1].raised = None =>
                    /\ ret[1].value \in {"True", "False"}
                    /\ ret[1].value = "True" <=> \E i \in Clicks : arg[i].e.click = "ok"
              /\ ret[1].raised # None =>
                    /\ ret[1].value = None
                    /\ \A i \in Clicks : arg[i].e.click # "ok"
                    /\ arg[Len(arg)].op \in {"find_elements_raises", "examine"}

\* a first candidate marked disabled by its class was clicked because reading
\* its disabled attribute raised; the click failed, the next candidate was
\* clicked and click_next returned True
C24_Witness ==
    /\ call = "click_next"
    /\ ret = << [raised |-> None, value |-> "True"] >>
    /\ Cardinality(Clicks) = 2
    /\ \E i \in Clicks :
          /\ arg[i].e.attr_raises = "disabled"
          /\ arg[i].e.class = <<"uitk-button", "is-disabled">>
          /\ arg[i].e.click = WebDriverException

\* the calls click_dialog_and_collect has made
Called(name) == \E i \in DOMAIN arg : arg[i] = name

\* C25: when no button carries the keywords, when the click on the trigger
\* button raises, when the dialog does not appear within the wait or when its
\* root cannot be located, click_dialog_and_collect returns the empty list
\* and raises nothing, and extract_amenities returns the items of the page
\* itself and nothing else.
C25_NoDialogNoError ==
    (call = "extract_amenities"
        /\ (Called("button_not_found") \/ Called("click_raises")
              \/ Called("wait_times_out") \/ Called("find_element_raises"))) =>
        /\ locals.more = << <<>> >>
        /\ locals.pc \in {"unique_list", "returned"}
        /\ ~Called("items")
        /\ ret # <<>> =>
              /\ ret[1].raised = None
              /\ ret[1].popular = locals.popular
              /\ {ret[1].combined[i] : i \in DOMAIN ret[1].combined}
                    = {locals.popular[i] : i \in DOMAIN locals.popular}

\* the dialog did not appear after the click, and extract_amenities returned
\* the two items of the page
C25_Witness ==
    /\ call = "extract_amenities"
    /\ arg = <<"scrollIntoView", "click", "wait_times_out">>
    /\ ret = << [raised |-> None, popular |-> <<"Wifi", "Pool">>,
                 combined |-> <<"Wifi", "Pool">>] >>

\* C26: once open_dialog_by_button has reported success,
\* click_dialog_and_collect does not return or raise without having called
\* close_dialog after the items were collected.
C26_DialogClosed ==
    (call = "extract_amenities" /\ locals.opened = "True"
        /\ locals.pc \in {"unique_list", "returned"}) =>
        \E i, j \in DOMAIN arg : i < j /\ arg[i] = "items" /\ arg[j] = "close_dialog"

C28_NoRecordBeforeDetailPhase ==
    /\ ~Happened("process_detail_targets") =>
          /\ _results = <<>>
          /\ scraped = {}
          /\ \A i \in DOMAIN _targets : _targets[i].status = "queued"
          /\ output_file # <<>> => output_file[1].content = <<>>
    /\ Happened("process_detail_targets") =>
          /\ for_exhausted(ci, cities)
          /\ Cardinality(EventsAt({"run_city"})) = Len(cities)
          /\ \A i \in EventsAt({"run_city"}), j \in EventsAt({"process_detail_targets"}) :
                i < j
    /\ (Happened("run_end_false") /\ ~Happened("process_detail_targets")) =>
          output_file = << [run_id |-> run_id, content |-> <<>>] >>

\* the search of the second city raised after the first had found a listing:
\* the run is over with the Target queued and an empty output file
C28_Witness ==
    /\ pc = "exited"
    /\ ci = 2
    /\ exc # None
    /\ Happened("run_city")
    /\ ~Happened("process_detail_targets")
    /\ Len(_targets) = 1
    /\ _targets[1].status = "queued"
    /\ output_file = << [run_id |-> run_id, content |-> <<>>] >>

\* C29: once run_start was reached, main calls run_end exactly once before it
\* exits, with success=true after both phases or with success=false after a
\* failure, also when it is the success-path run_end or the log line after
\* it that fails.
C29_RunEndOnce ==
    Happened("run_start") =>
        /\ Cardinality(EventsAt({"run_end_true", "run_end_false"})) <= 1
        /\ pc = "exited" =>
              Cardinality(EventsAt({"run_end_true", "run_end_false"})) = 1

\* C30: with a container found and every script call succeeding, scroll_page
\* returns once the measurements have stopped changing, whatever the pair
\* they settle on, a scroll height of 0 included.
C30_ScrollPageTerminates ==
    <>(arg # <<>>) => <>(locals.pc = "returned")

====
